---------------------------- MODULE Spec2Model ----------------------------
(***************************************************************************)
(* qemu-compose: the project workspace (.qemu-compose/), the host network  *)
(* fabric (links, iptables rules, DHCP units), the supervised VM units and *)
(* the commands up / stop / destroy / network down that act on them.       *)
(*                                                                         *)
(* Strings that the program only compares are TLA+ strings.  Strings that  *)
(* the program inspects or cuts are sequences of one-character strings     *)
(* (Chars maps a name to its characters).  A CIDR "a.b.c.d/m" is the tuple *)
(* <<a, b, c, d, m>>.  A path below .qemu-compose/ is the sequence of its  *)
(* components, <<>> being .qemu-compose/ itself.                           *)
(***************************************************************************)
EXTENDS Integers, Sequences, FiniteSets, TLC

---------------------------------------------------------------------------
(* Generic helpers *)

Range(s) == {s[i] : i \in DOMAIN s}

IsPrefix(p, q) == Len(p) =< Len(q) /\ SubSeq(q, 1, Len(p)) = p

Restrict(f, S) == [x \in S |-> f[x]]

\* m with key k bound to v (Go: m[k] = v)
Put(m, k, v) == (k :> v) @@ m

\* m without key k (Go: delete(m, k))
Del(m, k) == Restrict(m, DOMAIN m \ {k})

EmptyMap == <<>>

---------------------------------------------------------------------------
(* Characters of the names the model uses *)

Chars ==
     ("proj"    :> <<"p","r","o","j">>)
  @@ ("front"   :> <<"f","r","o","n","t">>)
  @@ ("back"    :> <<"b","a","c","k">>)
  @@ ("web"     :> <<"w","e","b">>)
  @@ ("volumes" :> <<"v","o","l","u","m","e","s">>)
  @@ ("bad"     :> <<"b","a","d">>)
  @@ ("data"    :> <<"d","a","t","a">>)
  @@ ("ghost"   :> <<"g","h","o","s","t">>)
  @@ ("./cfg"   :> <<".","/","c","f","g">>)
  @@ ("/var/lib/data" :> <<"/","v","a","r","/","l","i","b","/","d","a","t","a">>)
  @@ ("/mnt/data"     :> <<"/","m","n","t","/","d","a","t","a">>)
  @@ ("etc/app"       :> <<"e","t","c","/","a","p","p">>)
  @@ ("/etc/app"      :> <<"/","e","t","c","/","a","p","p">>)

\* strings.HasPrefix(s, c) for a one-character prefix
HasPrefix(s, c) == Len(Chars[s]) >= 1 /\ Chars[s][1] = c

\* strings.Contains(s, c) for a one-character needle
Contains(s, c) == c \in Range(Chars[s])

\* strings.ReplaceAll(s, " ", "-")
Sanitize(cs) == [i \in DOMAIN cs |-> IF cs[i] = " " THEN "-" ELSE cs[i]]

\* s[:n] when len(s) > n
Truncate(cs, n) == IF Len(cs) > n THEN SubSeq(cs, 1, n) ELSE cs

Digit(i) == <<"0","1","2","3","4","5","6","7","8","9">>[i + 1]

---------------------------------------------------------------------------
(* The compose file of the modelled project *)

\* basename of the working directory
getProjectName == "proj"

\* a Go pointer is the empty sequence (nil) or the sequence of the value it
\* points to
Nil == <<>>

Ptr(v) == <<v>>

Config ==
  [ Networks |-> [ front |-> [Driver |-> "bridge", Subnet |-> "auto"],
                   back  |-> [Driver |-> "bridge", Subnet |-> <<172, 16, 0, 0, 24>>] ],
    Volumes  |-> [ data |-> [Size |-> "5G"] ],
    VMs      |->
      [ web |->
          [ Image |-> "https://example/cloud.img", Disk |-> Ptr([Size |-> "5G"]),
            Networks |-> <<"front", "back">>, SSHPort |-> 0,
            Volumes |-> << [Source |-> "data", Target |-> "/var/lib/data",
                            ReadOnly |-> FALSE, Automount |-> Nil,
                            MountOptions |-> ""] >> ],
        volumes |->
          [ Image |-> "https://example/cloud.img", Disk |-> Nil,
            Networks |-> <<>>, SSHPort |-> 0,
            Volumes |-> <<>> ],
        bad |->
          [ Image |-> "https://example/cloud.img", Disk |-> Nil,
            Networks |-> <<"front">>, SSHPort |-> 0,
            Volumes |-> << [Source |-> "data", Target |-> "/mnt/data",
                            ReadOnly |-> FALSE, Automount |-> Nil,
                            MountOptions |-> ""],
                           [Source |-> "./cfg", Target |-> "etc/app",
                            ReadOnly |-> FALSE, Automount |-> Nil,
                            MountOptions |-> ""] >> ] ] ]

VMNames == DOMAIN Config.VMs

NetworkNames == DOMAIN Config.Networks

\* host directories that exist (bind-mount sources are checked against them)
HostPaths == {"./cfg"}

\* the image URLs a compose file of the project declares, with their basenames
ImageFilenames ==
     ("https://example/cloud.img" :> "cloud.img")
  @@ ("https://example/other.img" :> "other.img")

\* file name of the cached base image of an image URL (the URL's basename)
getImageFilename(url) == ImageFilenames[url]

isValidImageURL(image) == image \in DOMAIN ImageFilenames


---------------------------------------------------------------------------
(* Derived names *)

\* MD5("<project>-<vm>-<index>") in hex, first six digits
Md5Hex ==
     (<<"web", 0>>     :> <<"6","8","8","2","1","8">>)
  @@ (<<"web", 1>>     :> <<"c","b","f","0","8","1">>)
  @@ (<<"web", 2>>     :> <<"3","3","4","b","1","2">>)
  @@ (<<"volumes", 0>> :> <<"8","f","8","c","6","b">>)
  @@ (<<"volumes", 1>> :> <<"9","7","9","0","c","4">>)
  @@ (<<"bad", 0>>     :> <<"e","1","e","8","6","8">>)
  @@ (<<"bad", 1>>     :> <<"6","3","d","2","e","5">>)
  @@ (<<"bad", 2>>     :> <<"5","3","c","e","2","d">>)

\* getBridgeName for the characters of the two names
BridgeNameOf(projectName, networkName) ==
  Truncate(<<"q","c","-">> \o Sanitize(projectName) \o <<"-">> \o Sanitize(networkName), 15)

getBridgeName(networkName) == BridgeNameOf(Chars[getProjectName], Chars[networkName])

getTAPName(vmName, networkIndex) ==
  <<"t","a","p","-">> \o SubSeq(Md5Hex[<<vmName, networkIndex>>], 1, 4) \o <<"-">>
    \o Truncate(Sanitize(Chars[vmName]), 6)

generateMACAddress(vmName, networkIndex) ==
  <<"5","2",":","5","4",":","0","0",":">>
    \o SubSeq(Md5Hex[<<vmName, networkIndex>>], 1, 2) \o <<":">>
    \o SubSeq(Md5Hex[<<vmName, networkIndex>>], 3, 4) \o <<":">>
    \o SubSeq(Md5Hex[<<vmName, networkIndex>>], 5, 6)

getVMUnitName(vmName) ==
  <<"qemu-compose-">> \o Sanitize(Chars[getProjectName]) \o <<"-">>
    \o Sanitize(Chars[vmName])

getDnsmasqUnitName(networkName) ==
  <<"qemu-compose-dnsmasq-">> \o Sanitize(Chars[getProjectName]) \o <<"-">>
    \o Sanitize(Chars[networkName])

\* "a.b.c.0/m" -> "a.b.c.1/m"
getBridgeIP(subnet) == [subnet EXCEPT ![4] = 1]

---------------------------------------------------------------------------
(* The workspace as a file system.  A world w is a record of everything    *)
(* the commands read and write: w.dirs (directories), w.files (path ->     *)
(* content), w.links (netlink interfaces), w.rules (iptables rules),       *)
(* w.vmUnits (active VM units -> argv), w.dhcpUnits (active DHCP units).   *)

NetworksJson == <<"networks.json">>

VolumesJson == <<"volumes.json">>

Exists(w, p) == p \in w.dirs \/ p \in DOMAIN w.files

\* os.MkdirAll
MkdirAll(w, p) ==
  [w EXCEPT !.dirs = w.dirs \cup {SubSeq(p, 1, k) : k \in 0..Len(p)}]

\* os.WriteFile (the parent directory exists at every call site)
WriteFile(w, p, content) == [w EXCEPT !.files = Put(w.files, p, content)]

\* os.RemoveAll
RemoveAll(w, p) ==
  [w EXCEPT !.dirs  = {d \in w.dirs : ~IsPrefix(p, d)},
            !.files = Restrict(w.files, {q \in DOMAIN w.files : ~IsPrefix(p, q)})]

\* getInstanceDir creates the directory it names
getInstanceDir(w, vmName) == MkdirAll(w, <<vmName>>)

\* getNetworkMetadataPath / getVolumeMetadataPath create .qemu-compose/
getMetadataDir(w) == MkdirAll(w, <<>>)

\* the map a metadata file holds; a missing file reads as the empty map
ReadMap(w, p) == IF p \in DOMAIN w.files THEN w.files[p] ELSE EmptyMap

loadNetworkMetadata(w) == ReadMap(w, NetworksJson)

saveNetworkMetadata(w, metadata) == WriteFile(getMetadataDir(w), NetworksJson, metadata)

loadVolumeMetadata(w) == ReadMap(w, VolumesJson)

saveVolumeMetadata(w, metadata) == WriteFile(getMetadataDir(w), VolumesJson, metadata)

---------------------------------------------------------------------------
(* A world also carries the locals of the command that runs on it: w.err   *)
(* (the failed call, "" for nil), the values functions return besides the  *)
(* error (w.subnet, w.base, w.mounts, w.port, w.iso) and what the command  *)
(* has printed so far (w.out, w.hasError).  A function that can fail       *)
(* returns the world it leaves; called on a world whose w.err is set it    *)
(* does nothing, which is the caller's return on error.                    *)

Failed(w) == w.err # ""

Raise(w, call) == [w EXCEPT !.err = call]

\* an error of the named call is logged as a warning and dropped
Warn(w, call) == IF w.err = call THEN [w EXCEPT !.err = ""] ELSE w

---------------------------------------------------------------------------
(* Subnet allocation *)

PoolSize == 4096

\* fmt.Sprintf("172.%d.%d.0/24", 16 + i/256, i%256)
Subnet(i) == <<172, 16 + (i \div 256), i % 256, 0, 24>>

Min(a, b) == IF a < b THEN a ELSE b

\* the loop of allocateSubnet: the first index, counting up from 0, whose subnet
\* is free, or -1 when the loop ends without one.  k allocated subnets cannot
\* cover the k + 1 indices 0..k, so the loop returns within them when it returns
\* an index at all
FirstFree(allocatedSubnets) ==
  LET last == Min(PoolSize - 1, Cardinality(allocatedSubnets))
      free == {i \in 0..last : Subnet(i) \notin allocatedSubnets}
  IN  IF free = {} THEN -1 ELSE CHOOSE i \in free : \A j \in free : i =< j

\* a faulty allocateSubnet: it takes the index that follows the number of
\* records rather than the first index whose subnet is free
allocateSubnetByCount(metadata) ==
  IF Cardinality(DOMAIN metadata) >= PoolSize THEN [err |-> TRUE, subnet |-> ""]
  ELSE [err |-> FALSE, subnet |-> Subnet(Cardinality(DOMAIN metadata))]

allocateSubnet(metadata) ==
  LET allocatedSubnets == {metadata[n].Subnet : n \in DOMAIN metadata}
      i == FirstFree(allocatedSubnets)
  IN  IF i < 0 THEN [err |-> TRUE, subnet |-> ""]
      ELSE [err |-> FALSE, subnet |-> Subnet(i)]

\* a faulty resolveNetworkSubnet: it allocates without looking for the record
\* of the network, and replaces the record
resolveNetworkSubnetAnew(w, networkName, network) ==
  IF Failed(w) THEN w
  ELSE IF network.Subnet # "auto" /\ network.Subnet # ""
    THEN [w EXCEPT !.subnet = network.Subnet]
  ELSE IF allocateSubnet(loadNetworkMetadata(w)).err THEN Raise(w, "allocateSubnet")
  ELSE [saveNetworkMetadata(w,
          Put(loadNetworkMetadata(w), networkName,
              [Subnet |-> allocateSubnet(loadNetworkMetadata(w)).subnet,
               Driver |-> network.Driver,
               DnsmasqUnit |-> <<>>, DnsmasqActive |-> FALSE]))
          EXCEPT !.subnet = allocateSubnet(loadNetworkMetadata(w)).subnet]

\* the subnet is returned in w.subnet
resolveNetworkSubnet(w, networkName, network) ==
  IF Failed(w) THEN w
  ELSE IF network.Subnet # "auto" /\ network.Subnet # ""
    THEN [w EXCEPT !.subnet = network.Subnet]
  ELSE
    LET w1 == getMetadataDir(w)
        metadata == loadNetworkMetadata(w1)
        a == allocateSubnet(metadata)
    IN  IF networkName \in DOMAIN metadata
          THEN [w1 EXCEPT !.subnet = metadata[networkName].Subnet]
        ELSE IF a.err THEN Raise(w1, "allocateSubnet")
        ELSE [saveNetworkMetadata(w1,
                Put(metadata, networkName,
                    [Subnet |-> a.subnet, Driver |-> network.Driver,
                     DnsmasqUnit |-> <<>>, DnsmasqActive |-> FALSE]))
                EXCEPT !.subnet = a.subnet]

---------------------------------------------------------------------------
(* Network fabric *)

NatRules(networkName, subnet) ==
  { <<"nat POSTROUTING MASQUERADE -s", subnet>>,
    <<"FORWARD ACCEPT -i", getBridgeName(networkName)>>,
    <<"FORWARD ACCEPT -o", getBridgeName(networkName)>> }

isDnsmasqRunning(w, networkName) == getDnsmasqUnitName(networkName) \in DOMAIN w.dhcpUnits

startDnsmasq(w, networkName, subnet, f) ==
  LET unitName == getDnsmasqUnitName(networkName)
      w1 == [w EXCEPT !.dhcpUnits =
                Put(w.dhcpUnits, unitName,
                    [interface |-> getBridgeName(networkName),
                     gateway   |-> getBridgeIP(subnet),
                     rangeFrom |-> [subnet EXCEPT ![4] = 10],
                     rangeTo   |-> [subnet EXCEPT ![4] = 250]])]
      w2 == getMetadataDir(w1)
      metadata == loadNetworkMetadata(w2)
  IN  IF Failed(w) THEN w
      ELSE IF isDnsmasqRunning(w, networkName) THEN w
      ELSE IF f = "dnsmasq" THEN Raise(w, "dnsmasq")
      ELSE IF networkName \in DOMAIN metadata
        THEN saveNetworkMetadata(w2,
               Put(metadata, networkName,
                   [metadata[networkName] EXCEPT
                      !.DnsmasqUnit = unitName, !.DnsmasqActive = TRUE]))
      ELSE w2

stopDnsmasq(w, networkName) ==
  LET unitName == getDnsmasqUnitName(networkName)
      w1 == getMetadataDir([w EXCEPT !.dhcpUnits = Del(w.dhcpUnits, unitName)])
      metadata == loadNetworkMetadata(w1)
  IN  IF networkName \in DOMAIN metadata
        THEN saveNetworkMetadata(w1,
               Put(metadata, networkName,
                   [metadata[networkName] EXCEPT !.DnsmasqActive = FALSE]))
        ELSE w1

\* each rule is probed with -C and appended only when absent
setupNAT(w, networkName, subnet, f) ==
  IF Failed(w) THEN w
  ELSE IF f = "iptables" THEN Raise(w, "iptables")
  ELSE [w EXCEPT !.rules = w.rules \cup NatRules(networkName, subnet)]

cleanupNAT(w, networkName, subnet) ==
  [w EXCEPT !.rules = w.rules \ NatRules(networkName, subnet)]

\* netlink.LinkAdd of the bridge and LinkSetUp, when the bridge does not exist;
\* when LinkSetUp fails the bridge stays, down
addBridge(w, bridgeName, f) ==
  IF bridgeName \in DOMAIN w.links THEN w
  ELSE IF f = "LinkAdd bridge" THEN Raise(w, "LinkAdd bridge")
  ELSE IF f = "LinkSetUp bridge"
    THEN Raise([w EXCEPT !.links =
                  Put(w.links, bridgeName,
                      [kind |-> "bridge", up |-> FALSE, master |-> <<>>, addrs |-> {}])],
               "LinkSetUp bridge")
  ELSE [w EXCEPT !.links =
          Put(w.links, bridgeName,
              [kind |-> "bridge", up |-> TRUE, master |-> <<>>, addrs |-> {}])]

\* the rest of createBridge once the subnet is resolved into w.subnet: the
\* bridge gets its address; a failure of dnsmasq or of the NAT setup is only
\* warned on
configureBridge(w, networkName, f) ==
  IF Failed(w) THEN w
  ELSE
    LET w2 == [w EXCEPT !.links[getBridgeName(networkName)].addrs =
                          @ \cup {getBridgeIP(w.subnet)}]
        w3 == Warn(startDnsmasq(w2, networkName, w.subnet, f), "dnsmasq")
        w4 == Warn(setupNAT(w3, networkName, w.subnet, f), "iptables")
    IN  w4

createBridge(w, networkName, f) ==
  IF Failed(w) THEN w
  ELSE IF networkName \notin DOMAIN Config.Networks THEN Raise(w, "network not found")
  ELSE configureBridge(
         resolveNetworkSubnet(addBridge(w, getBridgeName(networkName), f),
                              networkName, Config.Networks[networkName]),
         networkName, f)

\* deleting a link releases the links enslaved to it
LinkDel(links, name) ==
  [l \in DOMAIN links \ {name} |->
     IF links[l].master = name THEN [links[l] EXCEPT !.master = <<>>] ELSE links[l]]

\* the NAT rules are removed when networks.json has a record of the network
deleteBridgeNAT(w, networkName) ==
  IF networkName \in DOMAIN loadNetworkMetadata(w)
    THEN cleanupNAT(w, networkName, loadNetworkMetadata(w)[networkName].Subnet)
    ELSE w

deleteBridgeLink(w, bridgeName) ==
  IF bridgeName \notin DOMAIN w.links THEN w
  ELSE [w EXCEPT !.links = LinkDel(w.links, bridgeName)]

deleteBridge(w, networkName) ==
  deleteBridgeLink(deleteBridgeNAT(stopDnsmasq(w, networkName), networkName),
                   getBridgeName(networkName))

createTAPDevice(w, vmName, networkIndex, f) ==
  LET tapName == getTAPName(vmName, networkIndex)
  IN  IF Failed(w) THEN w
      ELSE IF tapName \in DOMAIN w.links THEN w
      ELSE IF f = "LinkAdd tap" THEN Raise(w, "LinkAdd tap")
      ELSE IF f = "LinkSetUp tap"
        THEN Raise([w EXCEPT !.links =
                      Put(w.links, tapName,
                          [kind |-> "tap", up |-> FALSE, master |-> <<>>, addrs |-> {}])],
                   "LinkSetUp tap")
      ELSE [w EXCEPT !.links =
              Put(w.links, tapName,
                  [kind |-> "tap", up |-> TRUE, master |-> <<>>, addrs |-> {}])]

deleteTAPDevice(w, tapName) ==
  IF tapName \notin DOMAIN w.links THEN w
  ELSE [w EXCEPT !.links = LinkDel(w.links, tapName)]

attachTAPToBridge(w, tapName, networkName) ==
  LET bridgeName == getBridgeName(networkName)
  IN  IF Failed(w) THEN w
      ELSE IF tapName \notin DOMAIN w.links \/ bridgeName \notin DOMAIN w.links
        THEN Raise(w, "LinkSetMaster")
      ELSE [w EXCEPT !.links[tapName].master = bridgeName]

\* the loop of setupVMNetworks from index i (0-based) on
RECURSIVE setupVMNetworksFrom(_, _, _, _, _)
setupVMNetworksFrom(w, vmName, networks, i, f) ==
  IF i >= Len(networks) \/ Failed(w) THEN w
  ELSE setupVMNetworksFrom(
         attachTAPToBridge(
           createTAPDevice(createBridge(w, networks[i + 1], f), vmName, i, f),
           getTAPName(vmName, i), networks[i + 1]),
         vmName, networks, i + 1, f)

setupVMNetworks(w, vmName, vm, f) == setupVMNetworksFrom(w, vmName, vm.Networks, 0, f)

RECURSIVE cleanupVMNetworksFrom(_, _, _, _)
cleanupVMNetworksFrom(w, vmName, networks, i) ==
  IF i >= Len(networks) THEN w
  ELSE cleanupVMNetworksFrom(deleteTAPDevice(w, getTAPName(vmName, i)),
                             vmName, networks, i + 1)

cleanupVMNetworks(w, vmName, vm) == cleanupVMNetworksFrom(w, vmName, vm.Networks, 0)

---------------------------------------------------------------------------
(* Instance disk *)

DiskPath(vmName) == <<vmName, "disk.qcow2">>

DiskMetadataPath(vmName) == <<vmName, "disk.metadata.json">>

\* getBaseImagePath: the cached file of the image is returned in w.base, an error
\* when the image was not pulled
getBaseImagePath(w, imageURL) ==
  IF Failed(w) THEN w
  ELSE IF getImageFilename(imageURL) \in w.cache
    THEN [w EXCEPT !.base = <<"images", getImageFilename(imageURL)>>]
  ELSE Raise(w, "base image")

\* a faulty createInstanceDisk: an overlay that exists is resized to the
\* declared size
createInstanceDiskResized(w, vmName, baseImagePath, diskConfig, f) ==
  LET w0 == getInstanceDir(w, vmName)
      size == IF diskConfig = Nil THEN "10G"
              ELSE IF diskConfig[1].Size = "" THEN "10G" ELSE diskConfig[1].Size
      existing == IF DiskPath(vmName) \in DOMAIN w0.files
                    THEN w0.files[DiskPath(vmName)].backing ELSE baseImagePath
  IN  IF Failed(w) THEN w
      ELSE IF f = "qemu-img create" THEN Raise(w0, "qemu-img create")
      ELSE WriteFile(
             WriteFile(w0, DiskPath(vmName), [backing |-> existing, size |-> size]),
             DiskMetadataPath(vmName), [Size |-> size])

createInstanceDisk(w, vmName, baseImagePath, diskConfig, f) ==
  LET w0 == getInstanceDir(w, vmName)
      size == IF diskConfig = Nil THEN "10G"
              ELSE IF diskConfig[1].Size = "" THEN "10G" ELSE diskConfig[1].Size
      diskAlreadyExists == DiskPath(vmName) \in DOMAIN w0.files
      w1 == WriteFile(w0, DiskPath(vmName), [backing |-> baseImagePath, size |-> "base"])
  IN  IF Failed(w) THEN w
      ELSE IF diskAlreadyExists
        THEN \* compare the declared size with the metadata; never resize
          IF DiskMetadataPath(vmName) \notin DOMAIN w0.files
            THEN WriteFile(w0, DiskMetadataPath(vmName), [Size |-> size])
          ELSE IF w0.files[DiskMetadataPath(vmName)].Size # size
            THEN [w0 EXCEPT !.warned = @ \cup {<<vmName, "disk.size">>}]
          ELSE w0
      ELSE IF f = "qemu-img create" THEN Raise(w0, "qemu-img create")
      ELSE IF f = "qemu-img resize" THEN Raise(w1, "qemu-img resize")
      ELSE WriteFile(
             WriteFile(w1, DiskPath(vmName), [backing |-> baseImagePath, size |-> size]),
             DiskMetadataPath(vmName), [Size |-> size])

\* a faulty removeInstanceDisk: it removes the files of the directory and leaves
\* the directory
removeInstanceDiskFiles(w, vmName) ==
  [w EXCEPT !.files = Restrict(w.files, {q \in DOMAIN w.files : ~IsPrefix(<<vmName>>, q)})]

\* os.RemoveAll(.qemu-compose/<vmName>)
removeInstanceDisk(w, vmName) ==
  IF <<vmName>> \notin w.dirs THEN w ELSE RemoveAll(w, <<vmName>>)

---------------------------------------------------------------------------
(* Volumes *)

VolumesDir == <<"volumes">>

VolumeDiskPath(volumeName) == <<"volumes", volumeName, "volume.qcow2">>

\* isBindMount on the characters of the source
isBindMountOf(cs) ==
  "/" \in Range(cs) \/ "\\" \in Range(cs) \/ (Len(cs) >= 1 /\ cs[1] = ".")

isBindMount(source) == isBindMountOf(Chars[source])

\* the host path of a bind mount: absolute paths as they are, relative ones joined
\* to the compose file's directory; an error when the path does not exist
resolveBindMountPath(hostPath) ==
  IF hostPath \notin HostPaths THEN [err |-> TRUE, path |-> <<>>]
  ELSE IF HasPrefix(hostPath, "/") THEN [err |-> FALSE, path |-> <<hostPath>>]
  ELSE [err |-> FALSE, path |-> <<"composeDir", hostPath>>]

\* a faulty createNamedVolume: the record is written before the disk is
\* formatted
createNamedVolumeRecorded(w, volumeName, size, f) ==
  LET w0 == getMetadataDir(w)
      metadata == loadVolumeMetadata(w0)
      w1 == MkdirAll(MkdirAll(w0, VolumesDir), <<"volumes", volumeName>>)
      w2 == saveVolumeMetadata(
              WriteFile(w1, VolumeDiskPath(volumeName),
                        [size |-> size, fs |-> "none", written |-> FALSE]),
              Put(metadata, volumeName,
                  [Name |-> volumeName, Size |-> size,
                   DiskPath |-> VolumeDiskPath(volumeName)]))
      w3 == WriteFile(w2, VolumeDiskPath(volumeName),
                      [size |-> size, fs |-> "ext4", written |-> FALSE])
  IN  IF Failed(w) THEN w
      ELSE IF volumeName \in DOMAIN metadata THEN w0
      ELSE IF f = "qemu-img create volume" THEN Raise(w1, "qemu-img create volume")
      ELSE IF f = "mkfs.ext4" THEN Raise(w2, "mkfs.ext4")
      ELSE w3

createNamedVolume(w, volumeName, size, f) ==
  LET w0 == getMetadataDir(w)
      metadata == loadVolumeMetadata(w0)
      w1 == MkdirAll(MkdirAll(w0, VolumesDir), <<"volumes", volumeName>>)
      w2 == WriteFile(w1, VolumeDiskPath(volumeName),
                      [size |-> size, fs |-> "none", written |-> FALSE])
      w3 == WriteFile(w2, VolumeDiskPath(volumeName),
                      [size |-> size, fs |-> "ext4", written |-> FALSE])
  IN  IF Failed(w) THEN w
      ELSE IF volumeName \in DOMAIN metadata THEN w0
      ELSE IF f = "qemu-img create volume" THEN Raise(w1, "qemu-img create volume")
      ELSE IF f = "mkfs.ext4" THEN Raise(w2, "mkfs.ext4")
      ELSE saveVolumeMetadata(w3,
             Put(metadata, volumeName,
                 [Name |-> volumeName, Size |-> size,
                  DiskPath |-> VolumeDiskPath(volumeName)]))

ensureVolumeExists(w, volumeName, f) ==
  LET w0 == getMetadataDir(w)
      metadata == loadVolumeMetadata(w0)
  IN  IF Failed(w) THEN w
      ELSE IF volumeName \in DOMAIN metadata THEN w0
      ELSE IF volumeName \notin DOMAIN Config.Volumes THEN Raise(w0, "volume not defined")
      ELSE createNamedVolume(w0, volumeName,
                             IF Config.Volumes[volumeName].Size # ""
                               THEN Config.Volumes[volumeName].Size ELSE "10G", f)

\* the VolumeMountInfo of a bind mount is appended to w.mounts
appendBindMount(w, v) ==
  IF resolveBindMountPath(v.Source).err THEN Raise(w, "bind mount path")
  ELSE [w EXCEPT !.mounts =
          Append(@, [VolumeName |-> v.Source, MountPath |-> v.Target,
                     ReadOnly |-> v.ReadOnly,
                     Automount |-> IF v.Automount = Nil THEN TRUE ELSE v.Automount[1],
                     MountOptions |-> v.MountOptions, IsBindMount |-> TRUE,
                     HostPath |-> resolveBindMountPath(v.Source).path,
                     DiskPath |-> <<>>])]

\* the VolumeMountInfo of a named volume that exists is appended to w.mounts
appendNamedVolume(w, v) ==
  IF Failed(w) THEN w
  ELSE [w EXCEPT !.mounts =
          Append(@, [VolumeName |-> v.Source, MountPath |-> v.Target,
                     ReadOnly |-> v.ReadOnly, Automount |-> TRUE,
                     MountOptions |-> "", IsBindMount |-> FALSE,
                     HostPath |-> <<>>,
                     DiskPath |-> loadVolumeMetadata(w)[v.Source].DiskPath])]

\* parseVMVolumes, one entry of the VM's volumes
parseVMVolume(w, v, f) ==
  IF ~HasPrefix(v.Target, "/") THEN Raise(w, "target not absolute")
  ELSE IF isBindMount(v.Source) THEN appendBindMount(w, v)
  ELSE appendNamedVolume(ensureVolumeExists(w, v.Source, f), v)

\* the loop of parseVMVolumes from entry i (1-based) on
RECURSIVE parseVMVolumesFrom(_, _, _, _)
parseVMVolumesFrom(w, volumes, i, f) ==
  IF i > Len(volumes) \/ Failed(w) THEN w
  ELSE parseVMVolumesFrom(parseVMVolume(w, volumes[i], f), volumes, i + 1, f)

\* the mounts are returned in w.mounts
parseVMVolumes(w, vm, f) ==
  IF Failed(w) THEN w
  ELSE parseVMVolumesFrom([w EXCEPT !.mounts = <<>>], vm.Volumes, 1, f)

---------------------------------------------------------------------------
(* SSH port allocation *)

startPort == 2222

maxPort == 2322

PortsPath(vmName) == <<vmName, "ports.json">>

\* faulty probe: the forwarded ports of the active VMs are not seen
ListeningPortsOfOthers(w) == w.busy

\* the host ports on which something listens: the forwarded port of every
\* active VM and the ports of other processes
ListeningPorts(w) == {w.vmUnits[u].sshPort : u \in DOMAIN w.vmUnits} \cup w.busy

isPortAvailable(w, port) == port \notin ListeningPorts(w)

\* the SSH field of ports.json, 0 when the file is missing
loadPortMetadata(w, vmName) ==
  IF PortsPath(vmName) \in DOMAIN w.files THEN w.files[PortsPath(vmName)].SSH ELSE 0

\* a faulty getAllocatedPorts: it does not read the ports.json of the
\* directories
getAllocatedPortsNone(w) == {}

\* the ports recorded in the ports.json of every directory of .qemu-compose/
\* except ssh/
getAllocatedPorts(w) ==
  IF <<>> \notin w.dirs THEN {}
  ELSE {loadPortMetadata(w, d[1]) :
          d \in {e \in w.dirs : Len(e) = 1 /\ e[1] # "ssh"}} \ {0}

\* the loop of allocateSSHPort: the first port from startPort on that is neither
\* recorded nor listened on, or 0
FirstFreePort(w, allocatedPorts) ==
  LET free == {p \in startPort..maxPort :
                 p \notin allocatedPorts /\ isPortAvailable(w, p)}
  IN  IF free = {} THEN 0 ELSE CHOOSE p \in free : \A q \in free : p =< q

\* the port is returned in w.port
allocateSSHPort(w, vmName, vm) ==
  LET w0 == getInstanceDir(w, vmName)
      recorded == loadPortMetadata(w0, vmName)
      port == FirstFreePort(w0, getAllocatedPorts(w0))
  IN  IF Failed(w) THEN w
      ELSE IF vm.SSHPort > 0
        THEN IF ~isPortAvailable(w, vm.SSHPort) THEN Raise(w, "port in use")
             ELSE [w EXCEPT !.port = vm.SSHPort]
      ELSE IF recorded > 0 /\ isPortAvailable(w0, recorded)
        THEN [w0 EXCEPT !.port = recorded]
      ELSE IF port = 0 THEN Raise(w0, "no available ports")
      ELSE [WriteFile(w0, PortsPath(vmName), [SSH |-> port]) EXCEPT !.port = port]

getSSHPort(w, vmName) == loadPortMetadata(w, vmName)

---------------------------------------------------------------------------
(* Cloud-init seed *)

\* the mounts block of cloudInitTemplate: the entries rendered from entry k
\* (1-based) on, namedIdx and bindIdx being the template's two counters
\* string('b' + i)
indexToLetter(i) == <<"b","c","d","e","f","g","h","i","j","k">>[i + 1]

\* faulty mounts of the seed: the device letter of a named volume counts the
\* bind mounts before it as well
RECURSIVE SeedMountsByPosition(_, _, _, _)
SeedMountsByPosition(mounts, k, namedIdx, bindIdx) ==
  IF k > Len(mounts) THEN <<>>
  ELSE IF mounts[k].IsBindMount
    THEN << [source |-> <<"mount", bindIdx>>, target |-> mounts[k].MountPath,
             fstype |-> "9p", options |-> <<"trans=virtio,version=9p2000.L">>,
             entry |-> k] >>
         \o SeedMountsByPosition(mounts, k + 1, namedIdx, bindIdx + 1)
  ELSE << [source |-> <<"/dev/vd", indexToLetter(k - 1)>>, target |-> mounts[k].MountPath,
           fstype |-> "ext4", options |-> <<"defaults">>, entry |-> k] >>
       \o SeedMountsByPosition(mounts, k + 1, namedIdx + 1, bindIdx)

RECURSIVE SeedMountsFrom(_, _, _, _)
SeedMountsFrom(mounts, k, namedIdx, bindIdx) ==
  IF k > Len(mounts) THEN <<>>
  ELSE
    LET m == mounts[k]
    IN  IF m.IsBindMount
          THEN IF m.Automount
                 THEN << [source |-> <<"mount", bindIdx>>, target |-> m.MountPath,
                          fstype |-> "9p",
                          options |-> IF m.MountOptions # ""
                                        THEN <<m.MountOptions>>
                                        ELSE IF m.ReadOnly
                                          THEN <<"trans=virtio,version=9p2000.L", "ro">>
                                          ELSE <<"trans=virtio,version=9p2000.L">>,
                          entry |-> k] >>
                      \o SeedMountsFrom(mounts, k + 1, namedIdx, bindIdx + 1)
                 ELSE SeedMountsFrom(mounts, k + 1, namedIdx, bindIdx)
          ELSE << [source |-> <<"/dev/vd", indexToLetter(namedIdx)>>, target |-> m.MountPath,
                   fstype |-> "ext4",
                   options |-> IF m.ReadOnly THEN <<"ro">> ELSE <<"defaults">>,
                   entry |-> k] >>
               \o SeedMountsFrom(mounts, k + 1, namedIdx + 1, bindIdx)

SeedMounts(mounts) == SeedMountsFrom(mounts, 1, 0, 0)

has9pMounts(mounts) == \E k \in DOMAIN mounts : mounts[k].IsBindMount

SshDir == <<"ssh">>

\* getProjectSSHPublicKey: the key pair is generated when the public key is missing
getProjectSSHPublicKey(w) ==
  IF <<"ssh", "id_ed25519.pub">> \in DOMAIN w.files THEN w
  ELSE WriteFile(WriteFile(MkdirAll(w, SshDir), <<"ssh", "id_ed25519">>, "private key"),
                 <<"ssh", "id_ed25519.pub">>, "public key")

IsoPath(vmName) == <<vmName, "cloud-init.iso">>

\* the path of the seed is returned in w.iso
generateCloudInitISOWithVolumes(w, vmName, macAddresses, volumeMounts, f) ==
  LET w0 == MkdirAll(getInstanceDir(w, vmName), <<vmName, "cloud-init">>)
      w1 == getProjectSSHPublicKey(w0)
      userData == [mounts   |-> SeedMounts(volumeMounts),
                   bootcmd  |-> [k \in DOMAIN volumeMounts |-> volumeMounts[k].MountPath],
                   packages |-> IF has9pMounts(volumeMounts) /\ volumeMounts # <<>>
                                  THEN <<"9base">> ELSE <<>>,
                   network  |-> macAddresses]
      w2 == WriteFile(WriteFile(w1, <<vmName, "cloud-init", "user-data">>, userData),
                      <<vmName, "cloud-init", "meta-data">>,
                      [instanceId |-> vmName, localHostname |-> vmName])
      w3 == IF Len(macAddresses) > 0
              THEN WriteFile(w2, <<vmName, "cloud-init", "network-config">>, macAddresses)
              ELSE w2
  IN  IF Failed(w) THEN w
      ELSE IF f = "genisoimage" THEN Raise([w3 EXCEPT !.iso = <<>>], "genisoimage")
      ELSE [WriteFile(w3, IsoPath(vmName),
                      [label |-> "cidata", userData |-> userData,
                       networkConfig |-> macAddresses])
              EXCEPT !.iso = IsoPath(vmName)]

---------------------------------------------------------------------------
(* QEMU argv and the VM unit *)

\* the -virtfs / -drive arguments of the volume mounts from entry k (1-based) on
RECURSIVE VolumeArgsFrom(_, _, _)
VolumeArgsFrom(volumeMounts, k, virtfsIndex) ==
  IF k > Len(volumeMounts) THEN <<>>
  ELSE IF volumeMounts[k].IsBindMount
    THEN << [opt |-> "-virtfs", path |-> volumeMounts[k].HostPath,
             mount_tag |-> <<"mount", virtfsIndex>>, entry |-> k] >>
         \o VolumeArgsFrom(volumeMounts, k + 1, virtfsIndex + 1)
  ELSE << [opt |-> "-drive", file |-> volumeMounts[k].DiskPath, format |-> "qcow2",
           media |-> "disk"] >>
       \o VolumeArgsFrom(volumeMounts, k + 1, virtfsIndex)

RECURSIVE TapArgsFrom(_, _, _)
TapArgsFrom(vmName, networks, i) ==
  IF i >= Len(networks) THEN <<>>
  ELSE << [opt |-> "-netdev", type |-> "tap", id |-> i, ifname |-> getTAPName(vmName, i)],
          [opt |-> "-device", netdev |-> i, mac |-> generateMACAddress(vmName, i)] >>
       \o TapArgsFrom(vmName, networks, i + 1)

UserNetArgs(vmName, netIndex, sshPort) ==
  IF sshPort > 0
    THEN << [opt |-> "-netdev", type |-> "user", id |-> netIndex, hostfwd |-> sshPort],
            [opt |-> "-device", netdev |-> netIndex,
             mac |-> generateMACAddress(vmName, netIndex)] >>
    ELSE <<>>

buildQEMUCommand(vmName, vm, instanceDiskPath, cloudInitISOPath, sshPort, volumeMounts) ==
  << [opt |-> "-name", name |-> vmName],
     [opt |-> "-drive", file |-> instanceDiskPath, format |-> "qcow2", media |-> "disk"],
     [opt |-> "-serial", socket |-> <<vmName, "console.sock">>] >>
  \o VolumeArgsFrom(volumeMounts, 1, 0)
  \o (IF Len(vm.Networks) > 0
        THEN TapArgsFrom(vmName, vm.Networks, 0)
             \o UserNetArgs(vmName, Len(vm.Networks), sshPort)
        ELSE UserNetArgs(vmName, 0, sshPort))
  \o (IF cloudInitISOPath # <<>>
        THEN << [opt |-> "-drive", file |-> cloudInitISOPath, format |-> "raw",
                 media |-> "cdrom"] >>
        ELSE <<>>)

isVMRunning(w, vmName) == getVMUnitName(vmName) \in DOMAIN w.vmUnits

\* the disks of named volumes among the -drive arguments
AttachedVolumes(w, argv) ==
  {argv[k].file : k \in {j \in DOMAIN argv : argv[j].opt = "-drive"}}
    \cap {q \in DOMAIN w.files : Len(q) = 3 /\ q[1] = "volumes"}

\* systemd-run registers the unit; the guest writes to the volume disks it was
\* given
systemdRun(w, vmName, argv, sshPort, f) ==
  IF Failed(w) THEN w
  ELSE IF f = "systemd-run" THEN Raise(w, "systemd-run")
  ELSE [w EXCEPT !.vmUnits = Put(w.vmUnits, getVMUnitName(vmName),
                                 [argv |-> argv, sshPort |-> sshPort]),
                 !.files = [q \in DOMAIN w.files |->
                              IF q \in AttachedVolumes(w, argv)
                                THEN [w.files[q] EXCEPT !.written = TRUE]
                                ELSE w.files[q]]]

\* the MAC addresses of the bridge networks alone
macAddressesOfNetworks(vmName, vm, sshPort) ==
  [i \in 1..Len(vm.Networks) |-> generateMACAddress(vmName, i - 1)]

\* one MAC address per network, and one more for the user-mode interface that
\* forwards the SSH port
macAddressesOf(vmName, vm, sshPort) ==
  [i \in 1..(Len(vm.Networks) + (IF sshPort > 0 THEN 1 ELSE 0))
     |-> generateMACAddress(vmName, i - 1)]

\* startVM from the seed on; a failure to build the seed is only warned on
startVMSeed(w, vmName, vm, f) ==
  Warn(generateCloudInitISOWithVolumes(w, vmName, macAddressesOf(vmName, vm, w.port),
                                       w.mounts, f),
       "genisoimage")

startVMUnit(w, vmName, vm, instanceDiskPath, f) ==
  systemdRun(w, vmName,
             buildQEMUCommand(vmName, vm, instanceDiskPath, w.iso, w.port, w.mounts),
             w.port, f)

\* a faulty startVM: the volumes are parsed before the networks are set up
startVMVolumesFirst(w, vmName, vm, instanceDiskPath, f) ==
  LET w1 == parseVMVolumes(w, vm, f)
      w2 == IF Len(vm.Networks) > 0 THEN setupVMNetworks(w1, vmName, vm, f) ELSE w1
      w3 == allocateSSHPort(w2, vmName, vm)
      w4 == startVMSeed(w3, vmName, vm, f)
      w5 == startVMUnit(w4, vmName, vm, instanceDiskPath, f)
  IN  w5

startVM(w, vmName, vm, instanceDiskPath, f) ==
  LET w1 == IF Len(vm.Networks) > 0 THEN setupVMNetworks(w, vmName, vm, f) ELSE w
      w2 == parseVMVolumes(w1, vm, f)
      w3 == allocateSSHPort(w2, vmName, vm)
      w4 == startVMSeed(w3, vmName, vm, f)
      w5 == startVMUnit(w4, vmName, vm, instanceDiskPath, f)
  IN  w5

\* a faulty stopVM: the TAP devices of the VM are left behind
stopVMUnit(w, vmName, vm, f) ==
  IF Failed(w) THEN w
  ELSE IF f = "systemctl stop" THEN Raise(w, "systemctl stop")
  ELSE [w EXCEPT !.vmUnits = Del(w.vmUnits, getVMUnitName(vmName))]

stopVM(w, vmName, vm, f) ==
  LET w1 == [w EXCEPT !.vmUnits = Del(w.vmUnits, getVMUnitName(vmName))]
  IN  IF Failed(w) THEN w
      ELSE IF f = "systemctl stop" THEN Raise(w, "systemctl stop")
      ELSE IF Len(vm.Networks) > 0 THEN cleanupVMNetworks(w1, vmName, vm)
      ELSE w1

---------------------------------------------------------------------------
(* Status *)

\* what systemctl show reports for the unit of a VM that is not in transition
ActiveState(w, vmName) == IF isVMRunning(w, vmName) THEN "active" ELSE "inactive"

vmInstanceExists(w, vmName) ==
  LET w0 == getInstanceDir(w, vmName)
  IN  [w |-> w0, exists |-> DiskPath(vmName) \in DOMAIN w0.files]

\* probe: whether the ssh connection test succeeds
isVMReady(w, vmName, probe) ==
  IF getSSHPort(w, vmName) = 0 THEN FALSE
  ELSE IF <<"ssh", "id_ed25519">> \notin DOMAIN w.files THEN FALSE
  ELSE probe

\* queryFailed and activeState: the outcome of systemctl show
getVMStatus(w, vmName, queryFailed, activeState, probe) ==
  LET e == vmInstanceExists(w, vmName)
  IN  [w |-> e.w,
       status |->
         IF ~e.exists THEN "not-created"
         ELSE IF queryFailed THEN "unknown"
         ELSE IF activeState = "inactive" THEN "stopped"
         ELSE IF activeState = "active"
           THEN (IF isVMReady(e.w, vmName, probe) THEN "ready" ELSE "starting")
         ELSE activeState]

---------------------------------------------------------------------------
(* The commands.  A command visits the selected VMs in the order in which  *)
(* Go ranges over the map of VMs, which is any order.  out is what the     *)
(* command prints for each VM, hasError whether it exits with status 1.    *)

filterVMs(vmNames) == IF vmNames = {} THEN VMNames ELSE vmNames

\* the orders in which a range over a map with the keys S can visit them
Orders(S) == {o \in [1..Cardinality(S) -> S] : Range(o) = S}

\* what a command prints for a VM when it is done with it: out when no call
\* failed, and the error otherwise, which makes the command exit with status 1
Report(w, vmName, out) ==
  [w EXCEPT !.out = Put(@, vmName, IF Failed(w) THEN "error" ELSE out),
            !.hasError = @ \/ Failed(w),
            !.err = ""]

upCmdDisk(w, vmName, vm, f) == createInstanceDisk(w, vmName, w.base, vm.Disk, f)

\* a faulty upCmdVM: it does not look whether the VM is running
upCmdVMAgain(w, vmName, vm, f) ==
  IF ~isValidImageURL(vm.Image) THEN Report(w, vmName, "skipped")
  ELSE Report(startVM(upCmdDisk(getBaseImagePath(w, vm.Image), vmName, vm, f),
                      vmName, vm, DiskPath(vmName), f),
              vmName, "already running")

\* upCmd, one iteration
upCmdVM(w, vmName, vm, f) ==
  IF ~isValidImageURL(vm.Image) THEN Report(w, vmName, "skipped")
  ELSE IF isVMRunning(w, vmName) THEN Report(w, vmName, "already running")
  ELSE Report(startVM(upCmdDisk(getBaseImagePath(w, vm.Image), vmName, vm, f),
                      vmName, vm, DiskPath(vmName), f),
              vmName, "started")

\* a faulty upCmd loop: it ends at the first VM that fails
RECURSIVE upCmdLoopBreak(_, _, _, _)
upCmdLoopBreak(w, order, i, f) ==
  IF i > Len(order) \/ w.hasError THEN w
  ELSE upCmdLoopBreak(upCmdVM(w, order[i], Config.VMs[order[i]], f), order, i + 1, f)

RECURSIVE upCmdLoop(_, _, _, _)
upCmdLoop(w, order, i, f) ==
  IF i > Len(order) THEN w
  ELSE upCmdLoop(upCmdVM(w, order[i], Config.VMs[order[i]], f), order, i + 1, f)

upCmd(w, args, order, f) == upCmdLoop(w, order, 1, f)

\* a faulty stopCmd iteration: a VM that does not run is a failure
stopCmdVMStrict(w, vmName, vm, f) ==
  IF ~isVMRunning(w, vmName) THEN Report(Raise(w, "not running"), vmName, "not running")
  ELSE Report(stopVM(w, vmName, vm, f), vmName, "stopped")

\* stopCmd, one iteration
stopCmdVM(w, vmName, vm, f) ==
  IF ~isVMRunning(w, vmName) THEN Report(w, vmName, "not running")
  ELSE Report(stopVM(w, vmName, vm, f), vmName, "stopped")

RECURSIVE stopCmdLoop(_, _, _, _)
stopCmdLoop(w, order, i, f) ==
  IF i > Len(order) THEN w
  ELSE stopCmdLoop(stopCmdVM(w, order[i], Config.VMs[order[i]], f), order, i + 1, f)

stopCmd(w, args, order, f) == stopCmdLoop(w, order, 1, f)

\* destroyCmd, one iteration once the VM is not running: its TAP devices and
\* its directory are removed
destroyCmdRemove(w, vmName, vm) ==
  IF Failed(w) THEN w
  ELSE IF Len(vm.Networks) > 0
    THEN removeInstanceDisk(cleanupVMNetworks(w, vmName, vm), vmName)
  ELSE removeInstanceDisk(w, vmName)

\* destroyCmd, one iteration
destroyCmdVM(w, vmName, vm, f) ==
  Report(destroyCmdRemove(IF isVMRunning(w, vmName) THEN stopVM(w, vmName, vm, f) ELSE w,
                          vmName, vm),
         vmName, "removed")

RECURSIVE destroyCmdLoop(_, _, _, _)
destroyCmdLoop(w, order, i, f) ==
  IF i > Len(order) THEN w
  ELSE destroyCmdLoop(destroyCmdVM(w, order[i], Config.VMs[order[i]], f), order, i + 1, f)

RECURSIVE deleteBridges(_, _)
deleteBridges(w, networks) ==
  IF networks = {} THEN w
  ELSE deleteBridges(deleteBridge(w, CHOOSE x \in networks : TRUE),
                     networks \ {CHOOSE x \in networks : TRUE})

\* the entries of the networks are deleted from networks.json, which is written
\* back
removeNetworkMetadata(w, networks) ==
  saveNetworkMetadata(getMetadataDir(w),
                      Restrict(loadNetworkMetadata(w),
                               DOMAIN loadNetworkMetadata(w) \ networks))

\* destroyCmd after the loop: when no VM was named, every network of the compose
\* file is torn down
destroyCmdNetworks(w, args) ==
  IF args = {}
    THEN removeNetworkMetadata(deleteBridges(w, NetworkNames), NetworkNames)
    ELSE w

destroyCmd(w, args, order, f) == destroyCmdNetworks(destroyCmdLoop(w, order, 1, f), args)

affectedVMs(networksToDestroy) ==
  {v \in VMNames : Range(Config.VMs[v].Networks) \cap networksToDestroy # {}}

\* a VM that cannot be stopped is warned on and the cleanup continues
stopAffectedVM(w, vmName, f) ==
  IF isVMRunning(w, vmName)
    THEN Warn(stopVM(w, vmName, Config.VMs[vmName], f), "systemctl stop")
    ELSE w

RECURSIVE stopAffectedVMs(_, _, _)
stopAffectedVMs(w, vms, f) ==
  IF vms = {} THEN w
  ELSE stopAffectedVMs(stopAffectedVM(w, CHOOSE x \in vms : TRUE, f),
                       vms \ {CHOOSE x \in vms : TRUE}, f)

RECURSIVE deleteTAPDevices(_, _)
deleteTAPDevices(w, vms) ==
  IF vms = {} THEN w
  ELSE deleteTAPDevices(
         cleanupVMNetworks(w, CHOOSE x \in vms : TRUE, Config.VMs[CHOOSE x \in vms : TRUE]),
         vms \ {CHOOSE x \in vms : TRUE})

networksToDestroy(args) == IF args = {} THEN NetworkNames ELSE args

networkDownCmd(w, args, f) ==
  removeNetworkMetadata(
    deleteBridges(
      deleteTAPDevices(
        stopAffectedVMs(w, affectedVMs(networksToDestroy(args)), f),
        affectedVMs(networksToDestroy(args))),
      networksToDestroy(args)),
    networksToDestroy(args))

---------------------------------------------------------------------------
(* State *)

VARIABLES
  dirs,       \* directories below .qemu-compose/ (<<>>: .qemu-compose/ itself)
  files,      \* path below .qemu-compose/ -> content
  links,      \* netlink interfaces: name -> [kind, up, master, addrs]
  rules,      \* iptables rules
  vmUnits,    \* active VM units: unit name -> [argv, sshPort]
  dhcpUnits,  \* active dnsmasq units
  cache,      \* file names of the pulled base images
  busy,       \* host ports other processes listen on
  call,       \* the last operation invoked and its arguments
  ret,        \* what it returned or printed (Pending: it has not run yet)
  ran         \* the number of commands issued so far

vars == <<dirs, files, links, rules, vmUnits, dhcpUnits, cache, busy, call, ret, ran>>

World ==
  [dirs |-> dirs, files |-> files, links |-> links, rules |-> rules,
   vmUnits |-> vmUnits, dhcpUnits |-> dhcpUnits, cache |-> cache, busy |-> busy]

\* the locals of a command that begins
Locals ==
  [err |-> "", subnet |-> "", base |-> <<>>, mounts |-> <<>>, port |-> 0, iso |-> <<>>,
   out |-> EmptyMap, hasError |-> FALSE, warned |-> {}]

\* the world on which a command begins
Entry == World @@ Locals

Becomes(w) ==
  /\ dirs' = w.dirs
  /\ files' = w.files
  /\ links' = w.links
  /\ rules' = w.rules
  /\ vmUnits' = w.vmUnits
  /\ dhcpUnits' = w.dhcpUnits
  /\ cache' = w.cache
  /\ busy' = w.busy

Pending == [pending |-> TRUE]

\* the external calls one of which may fail while a command runs
Faults == {"none", "dnsmasq", "mkfs.ext4", "systemd-run", "systemctl stop"}

\* the number of commands a run of the model issues
MaxCommands == 3

\* the VM selections given on the command line: none (all VMs) or one VM
Selections == {{}} \cup {{v} : v \in VMNames}

Init ==
  /\ dirs = {}
  /\ files = EmptyMap
  /\ links = EmptyMap
  /\ rules = {}
  /\ vmUnits = EmptyMap
  /\ dhcpUnits = EmptyMap
  /\ cache = {}
  /\ busy = {}
  /\ call = [op |-> "none"]
  /\ ret = [code |-> 0]
  /\ ran = 0

---------------------------------------------------------------------------
(* Actions *)

\* qemu-compose pull: the base image is downloaded into the cache
Pull ==
  /\ getImageFilename("https://example/cloud.img") \notin cache
  /\ cache' = cache \cup {getImageFilename("https://example/cloud.img")}
  /\ call' = [op |-> "pull"]
  /\ ret' = [code |-> 0]
  /\ UNCHANGED <<dirs, files, links, rules, vmUnits, dhcpUnits, busy, ran>>

Issue ==
  /\ ran < MaxCommands
  /\ ran' = ran + 1

\* the command ends: the world is as it leaves it, and it has printed w.out and
\* exited with status 1 when an iteration failed
Exits(w) ==
  /\ Becomes(w)
  /\ ret' = [code |-> IF w.hasError THEN 1 ELSE 0, out |-> w.out]

\* qemu-compose up [VM...]
Up(args, order, f) ==
  /\ Issue
  /\ call' = [op |-> "up", args |-> args]
  /\ Exits(upCmd(Entry, args, order, f))

\* qemu-compose stop [VM...]
Stop(args, order, f) ==
  /\ Issue
  /\ call' = [op |-> "stop", args |-> args]
  /\ Exits(stopCmd(Entry, args, order, f))

\* qemu-compose destroy [VM...]
Destroy(args, order, f) ==
  /\ Issue
  /\ call' = [op |-> "destroy", args |-> args]
  /\ Exits(destroyCmd(Entry, args, order, f))

\* qemu-compose network down [NETWORK...], confirmed or forced
NetworkDown(args, f) ==
  /\ Issue
  /\ Becomes(networkDownCmd(Entry, args, f))
  /\ call' = [op |-> "network down", args |-> args]
  /\ ret' = [code |-> 0]

\* the QEMU process of a VM ends by itself; its unit is collected
VMExit(vmName) ==
  /\ isVMRunning(World, vmName)
  /\ Issue
  /\ vmUnits' = Del(vmUnits, getVMUnitName(vmName))
  /\ call' = [op |-> "vm exit", vm |-> vmName]
  /\ ret' = [code |-> 0]
  /\ UNCHANGED <<dirs, files, links, rules, dhcpUnits, cache, busy>>

Next ==
  \/ Pull
  \/ \E args \in Selections, f \in Faults :
       \E order \in Orders(filterVMs(args)) : Up(args, order, f)
  \/ \E args \in Selections, f \in {"none", "systemctl stop"} :
       \E order \in Orders(filterVMs(args)) : Stop(args, order, f)
  \/ \E args \in Selections, f \in {"none", "systemctl stop"} :
       \E order \in Orders(filterVMs(args)) : Destroy(args, order, f)
  \/ \E args \in SUBSET NetworkNames, f \in {"none", "systemctl stop"} :
       NetworkDown(args, f)
  \/ \E vmName \in VMNames : VMExit(vmName)

Spec == Init /\ [][Next]_vars

---------------------------------------------------------------------------
(* resolveNetworkSubnet on its own: networks.json holds records of other   *)
(* networks, and possibly one of the network that is resolved              *)

\* networks.json is drawn with records at any of the first AllocProbe indices of
\* the pool
AllocProbe == 6

\* the sets of pool indices that networks.json records: the small ones, the
\* whole pool, and the pool but for one index
AllocInputs ==
  (SUBSET (0..(AllocProbe - 1)))
    \cup {0..(PoolSize - 1), 0..(PoolSize - 2), (0..(PoolSize - 1)) \ {256}}

\* networks.json with a record, under the name ToString(i), for each index
RecordsOf(indices) ==
  [name \in {ToString(i) : i \in indices} |->
     [Subnet |-> Subnet(CHOOSE i \in indices : ToString(i) = name),
      Driver |-> "bridge", DnsmasqUnit |-> <<>>, DnsmasqActive |-> FALSE]]

OwnRecord(networkName) ==
  networkName :> [Subnet |-> Subnet(AllocProbe + 1), Driver |-> "bridge",
                  DnsmasqUnit |-> <<>>, DnsmasqActive |-> FALSE]

InitAlloc ==
  /\ dirs = {<<>>}
  /\ \E records \in {RecordsOf(indices) : indices \in AllocInputs} :
     \E networkName \in NetworkNames, own \in BOOLEAN :
       /\ files = (NetworksJson :> (IF own THEN OwnRecord(networkName) @@ records
                                           ELSE records))
       /\ call = [op |-> "resolveNetworkSubnet", networkName |-> networkName,
                  metadata |-> files[NetworksJson]]
  /\ links = EmptyMap
  /\ rules = {}
  /\ vmUnits = EmptyMap
  /\ dhcpUnits = EmptyMap
  /\ cache = {}
  /\ busy = {}
  /\ ret = Pending
  /\ ran = 0

Resolved(w) ==
  /\ Becomes(w)
  /\ ret' = [err |-> w.err, subnet |-> w.subnet]

Resolve ==
  /\ ret = Pending
  /\ Resolved(resolveNetworkSubnet(Entry, call.networkName,
                                   Config.Networks[call.networkName]))
  /\ UNCHANGED <<call, ran>>

NextAlloc == Resolve

SpecAlloc == InitAlloc /\ [][NextAlloc]_vars

---------------------------------------------------------------------------
(* allocateSSHPort on its own: the VM and another VM may have a ports.json,  *)
(* and other processes listen on some ports                                *)

\* ports.json files and listeners are drawn among the first PortProbe ports of
\* the range
PortProbe == 3

ProbedPorts == startPort..(startPort + PortProbe - 1)

\* the sets of ports other processes listen on: the small ones, the whole
\* range, and the range but for its last port
BusyInputs == (SUBSET ProbedPorts) \cup {startPort..maxPort, startPort..(maxPort - 1)}

\* the directory of a VM, with a ports.json when a port is recorded (0: none)
PortFiles(vmName, port) ==
  IF port = 0 THEN EmptyMap ELSE PortsPath(vmName) :> [SSH |-> port]

InitPort ==
  /\ dirs = {<<>>, <<"web">>, <<"volumes">>, <<"ssh">>}
  /\ \E own \in {0} \cup ProbedPorts, other \in {0} \cup ProbedPorts :
       /\ files = PortFiles("web", own) @@ PortFiles("volumes", other)
                    @@ (<<"ssh", "ports.json">> :> [SSH |-> startPort])
       /\ call = [op |-> "allocateSSHPort", vmName |-> "web", files |-> files]
  /\ busy \in BusyInputs
  /\ links = EmptyMap
  /\ rules = {}
  /\ vmUnits = EmptyMap
  /\ dhcpUnits = EmptyMap
  /\ cache = {}
  /\ ret = Pending
  /\ ran = 0

Allocated(w) ==
  /\ Becomes(w)
  /\ ret' = [err |-> w.err, port |-> w.port]

AllocatePort ==
  /\ ret = Pending
  /\ Allocated(allocateSSHPort(Entry, call.vmName, Config.VMs[call.vmName]))
  /\ UNCHANGED <<call, ran>>

NextPort == AllocatePort

SpecPort == InitPort /\ [][NextPort]_vars

---------------------------------------------------------------------------
(* getVMStatus on its own: what systemctl show answers and whether the SSH *)
(* probe succeeds are inputs                                               *)

\* the values of a unit's ActiveState
ActiveStates ==
  {"active", "reloading", "inactive", "failed", "activating", "deactivating",
   "maintenance"}

InitStatus ==
  /\ \E vmName \in VMNames, created \in BOOLEAN, port \in {0, startPort}, key \in BOOLEAN :
       /\ dirs = {<<>>} \cup (IF created \/ port > 0 THEN {<<vmName>>} ELSE {})
                        \cup (IF key THEN {SshDir} ELSE {})
       /\ files = (IF created
                     THEN DiskPath(vmName) :> [backing |-> <<"images", "cloud.img">>,
                                               size |-> "10G"]
                     ELSE EmptyMap)
                  @@ PortFiles(vmName, port)
                  @@ (IF key THEN <<"ssh", "id_ed25519">> :> "private key" ELSE EmptyMap)
       /\ \E queryFailed \in BOOLEAN, activeState \in ActiveStates, probe \in BOOLEAN :
            call = [op |-> "getVMStatus", vmName |-> vmName, created |-> created,
                    queryFailed |-> queryFailed, activeState |-> activeState,
                    probe |-> probe]
  /\ links = EmptyMap
  /\ rules = {}
  /\ vmUnits = EmptyMap
  /\ dhcpUnits = EmptyMap
  /\ cache = {}
  /\ busy = {}
  /\ ret = Pending
  /\ ran = 0

Answered(r) ==
  /\ Becomes(r.w)
  /\ ret' = [status |-> r.status]

Ps ==
  /\ ret = Pending
  /\ Answered(getVMStatus(World, call.vmName, call.queryFailed, call.activeState,
                          call.probe))
  /\ UNCHANGED <<call, ran>>

NextStatus == Ps

SpecStatus == InitStatus /\ [][NextStatus]_vars

---------------------------------------------------------------------------
(* startVM on a VM whose volumes are drawn: the seed and the argv it makes *)

\* the VM has at most MaxMounts volumes
MaxMounts == 3

\* the entries a VM's volumes are drawn from: a named volume and bind mounts
\* with and without automount, read-only and with mount options of their own
VolumeChoices ==
  { [Source |-> "data", Target |-> "/var/lib/data", ReadOnly |-> FALSE,
     Automount |-> Nil, MountOptions |-> ""],
    [Source |-> "./cfg", Target |-> "/etc/app", ReadOnly |-> FALSE,
     Automount |-> Nil, MountOptions |-> ""],
    [Source |-> "./cfg", Target |-> "/mnt/data", ReadOnly |-> FALSE,
     Automount |-> Ptr(FALSE), MountOptions |-> ""],
    [Source |-> "./cfg", Target |-> "/etc/app", ReadOnly |-> TRUE,
     Automount |-> Ptr(TRUE), MountOptions |-> ""],
    [Source |-> "./cfg", Target |-> "/mnt/data", ReadOnly |-> TRUE,
     Automount |-> Nil, MountOptions |-> "trans=virtio,cache=mmap"] }

VolumeLists == UNION {[1..n -> VolumeChoices] : n \in 0..MaxMounts}

\* a VM in user-mode networking with the given volumes
VMWith(volumes) ==
  [Image |-> "https://example/cloud.img", Disk |-> Nil, Networks |-> <<>>,
   SSHPort |-> 0, Volumes |-> volumes]

InitMount ==
  /\ dirs = {<<>>, <<"web">>}
  /\ files = (DiskPath("web") :> [backing |-> <<"images", "cloud.img">>, size |-> "10G"])
  /\ \E volumes \in VolumeLists :
       call = [op |-> "startVM", vmName |-> "web", vm |-> VMWith(volumes)]
  /\ links = EmptyMap
  /\ rules = {}
  /\ vmUnits = EmptyMap
  /\ dhcpUnits = EmptyMap
  /\ cache = {"cloud.img"}
  /\ busy = {}
  /\ ret = Pending
  /\ ran = 0

Started(w) ==
  /\ Becomes(w)
  /\ ret' = [err |-> w.err]

StartVM ==
  /\ ret = Pending
  /\ Started(startVM(Entry, call.vmName, call.vm, DiskPath(call.vmName), "none"))
  /\ UNCHANGED <<call, ran>>

NextMount == StartVM

SpecMount == InitMount /\ [][NextMount]_vars

---------------------------------------------------------------------------
(* Properties of the commands *)

\* C1: once the project is fully destroyed (destroy without VM names that exits
\* with status 0, or network down of every network), nothing attributable to a
\* network remains: no bridge, no TAP device of a VM on it, no MASQUERADE rule
\* for its subnet, no FORWARD rule for its bridge, no DHCP unit, no record in
\* networks.json
C1_NothingRemainsOfNetworks ==
  LET fullyDestroyed ==
        \/ call.op = "destroy" /\ call.args = {} /\ ret.code = 0
        \/ call.op = "network down" /\ networksToDestroy(call.args) = NetworkNames
      subnetOf(r, n) ==
        IF Config.Networks[n].Subnet \notin {"auto", ""}
          THEN r[2] = Config.Networks[n].Subnet
          ELSE r[2][1] = 172 /\ r[2][2] \in 16..31 /\ r[2][4] = 0 /\ r[2][5] = 24
      remains(n) ==
        \/ getBridgeName(n) \in DOMAIN links
        \/ \E v \in VMNames : \E i \in DOMAIN Config.VMs[v].Networks :
             Config.VMs[v].Networks[i] = n /\ getTAPName(v, i - 1) \in DOMAIN links
        \/ \E r \in rules : r[1] = "nat POSTROUTING MASQUERADE -s" /\ subnetOf(r, n)
        \/ \E r \in rules : r[1] \in {"FORWARD ACCEPT -i", "FORWARD ACCEPT -o"}
                            /\ r[2] = getBridgeName(n)
        \/ getDnsmasqUnitName(n) \in DOMAIN dhcpUnits
        \/ n \in DOMAIN loadNetworkMetadata(World)
  IN  fullyDestroyed => \A n \in NetworkNames : ~remains(n)

\* C2: no two networks that are realized on the host (their bridges exist and
\* carry an address) have the same subnet
C2_RealizedSubnetsDistinct ==
  \A m, n \in NetworkNames :
    (/\ m # n
     /\ getBridgeName(m) \in DOMAIN links
     /\ getBridgeName(n) \in DOMAIN links)
      => links[getBridgeName(m)].addrs \cap links[getBridgeName(n)].addrs = {}

\* C4: once networks.json holds a subnet for a network, every command other than
\* a teardown of the network (destroy without VM names, network down of the
\* network) keeps that subnet in networks.json, and what the command sets up for
\* the network (the address of its bridge, the gateway its DHCP unit serves) is
\* of that subnet, whether or not the command starts the DHCP unit
C4_PersistedSubnetIsKept ==
  [][\A n \in NetworkNames :
       (/\ n \in DOMAIN loadNetworkMetadata(World)
        /\ ~(call'.op = "destroy" /\ call'.args = {})
        /\ ~(call'.op = "network down" /\ n \in networksToDestroy(call'.args)))
       => /\ NetworksJson \in DOMAIN files'
          /\ n \in DOMAIN files'[NetworksJson]
          /\ files'[NetworksJson][n].Subnet = loadNetworkMetadata(World)[n].Subnet
          /\ (getBridgeName(n) \in DOMAIN links'
                => links'[getBridgeName(n)].addrs
                     \subseteq {getBridgeIP(loadNetworkMetadata(World)[n].Subnet)})
          /\ (getDnsmasqUnitName(n) \in DOMAIN dhcpUnits'
                => dhcpUnits'[getDnsmasqUnitName(n)].gateway
                     = getBridgeIP(loadNetworkMetadata(World)[n].Subnet))]_vars

\* the case of C4 happens: front got its subnet in an earlier command (the TAP
\* device of bad is from that command), and a later up of web has resolved the
\* subnet again and has started web on a bridge of that subnet
C4_Witness ==
  /\ call = [op |-> "up", args |-> {"web"}]
  /\ "web" \in DOMAIN ret.out
  /\ ret.out["web"] = "started"
  /\ getTAPName("bad", 0) \in DOMAIN links
  /\ "front" \in DOMAIN loadNetworkMetadata(World)
  /\ loadNetworkMetadata(World)["front"].DnsmasqActive
  /\ links[getBridgeName("front")].addrs
       = {getBridgeIP(loadNetworkMetadata(World)["front"].Subnet)}

\* C5: no up, stop or destroy, of one VM or of all, deletes the disk of a named
\* volume or its record in volumes.json, and none creates the disk again or
\* formats it again: the disk stays as it was but for what guests write to it
C5_NamedVolumesAreKept ==
  [][\A v \in DOMAIN loadVolumeMetadata(World) :
       call'.op \in {"up", "stop", "destroy"}
       => /\ VolumesJson \in DOMAIN files'
          /\ v \in DOMAIN files'[VolumesJson]
          /\ files'[VolumesJson][v] = loadVolumeMetadata(World)[v]
          /\ VolumeDiskPath(v) \in DOMAIN files
               => /\ VolumeDiskPath(v) \in DOMAIN files'
                  /\ files'[VolumeDiskPath(v)]
                       \in {files[VolumeDiskPath(v)],
                            [files[VolumeDiskPath(v)] EXCEPT !.written = TRUE]}]_vars

\* C6: for every VM, when stop has stopped it (it was running, so an up had
\* started it), its overlay disk exists and its status is stopped; when destroy
\* has removed it, its overlay disk and its directory do not exist and its
\* status is not-created
C6_StoppedKeepsDestroyedRemoves ==
  \A v \in VMNames :
    /\ (call.op = "stop" /\ v \in DOMAIN ret.out /\ ret.out[v] = "stopped")
         => /\ DiskPath(v) \in DOMAIN files
            /\ \A probe \in BOOLEAN :
                 getVMStatus(World, v, FALSE, ActiveState(World, v), probe).status
                   = "stopped"
    /\ (call.op = "destroy" /\ v \in DOMAIN ret.out /\ ret.out[v] = "removed")
         => /\ DiskPath(v) \notin DOMAIN files
            /\ <<v>> \notin dirs
            /\ \A probe \in BOOLEAN :
                 getVMStatus(World, v, FALSE, ActiveState(World, v), probe).status
                   = "not-created"

\* the case of C6 happens: web, which an up had started, has been stopped by a
\* stop and its overlay disk is there
C6_Witness ==
  /\ call.op = "stop"
  /\ "web" \in DOMAIN ret.out
  /\ ret.out["web"] = "stopped"
  /\ DiskPath("web") \in DOMAIN files
  /\ ~isVMRunning(World, "web")

\* C7: an up of a VM one of whose volumes has a target that is not absolute, or
\* names a volume the compose file does not declare, does nothing for the VM: it
\* creates no overlay, no bridge or TAP device and no volume, it persists no
\* subnet and it registers no unit
C7_InvalidVolumesRejectedFirst ==
  [][\A v \in VMNames :
       (/\ \E k \in DOMAIN Config.VMs[v].Volumes :
             \/ ~HasPrefix(Config.VMs[v].Volumes[k].Target, "/")
             \/ /\ ~isBindMount(Config.VMs[v].Volumes[k].Source)
                /\ Config.VMs[v].Volumes[k].Source \notin DOMAIN Config.Volumes
        /\ call'.op = "up"
        /\ call'.args = {v}
        /\ ran' = ran + 1)
       => /\ DiskPath(v) \in DOMAIN files' => DiskPath(v) \in DOMAIN files
          /\ DOMAIN links' = DOMAIN links
          /\ NetworksJson \in DOMAIN files'
               => /\ NetworksJson \in DOMAIN files
                  /\ files'[NetworksJson] = files[NetworksJson]
          /\ \A q \in DOMAIN files' :
               q[1] \in {"volumes", "volumes.json"}
                 => q \in DOMAIN files /\ files'[q] = files[q]
          /\ vmUnits' = vmUnits]_vars

---------------------------------------------------------------------------
(* Properties of resolveNetworkSubnet (SpecAlloc) *)

\* C3: for a network whose subnet is automatic and that has no record, the subnet
\* returned is 172.(16 + i div 256).(i mod 256).0/24 for the smallest i in
\* 0..4095 whose subnet no record holds (172.16.0.0/24 when there are no
\* records, 172.16.1.0/24 when the records hold 172.16.0.0/24 and
\* 172.16.2.0/24), and it is recorded in networks.json when it is returned; when
\* every i is taken, an error is returned and networks.json is left as it was
C3_AutoSubnetIsFirstFree ==
  LET n == call.networkName
      taken == {call.metadata[k].Subnet : k \in DOMAIN call.metadata}
      pool(i) == <<172, 16 + (i \div 256), i % 256, 0, 24>>
      free == {i \in 0..4095 : pool(i) \notin taken}
      first == CHOOSE i \in free : \A j \in free : i =< j
  IN  (/\ ret # Pending
       /\ Config.Networks[n].Subnet = "auto"
       /\ n \notin DOMAIN call.metadata)
      => IF free = {}
           THEN ret.err # "" /\ files[NetworksJson] = call.metadata
           ELSE /\ ret.err = ""
                /\ ret.subnet = pool(first)
                /\ DOMAIN files[NetworksJson] = DOMAIN call.metadata \cup {n}
                /\ files[NetworksJson][n].Subnet = pool(first)
                /\ \A k \in DOMAIN call.metadata : files[NetworksJson][k] = call.metadata[k]
                /\ (taken = {} => ret.subnet = <<172, 16, 0, 0, 24>>)
                /\ (taken = {<<172, 16, 0, 0, 24>>, <<172, 16, 2, 0, 24>>}
                      => ret.subnet = <<172, 16, 1, 0, 24>>)

\* the example of C3 happens: with records of 172.16.0.0/24 and 172.16.2.0/24,
\* front has been given 172.16.1.0/24 and has its record
C3_Witness ==
  /\ call.networkName = "front"
  /\ {call.metadata[k].Subnet : k \in DOMAIN call.metadata}
       = {<<172, 16, 0, 0, 24>>, <<172, 16, 2, 0, 24>>}
  /\ ret = [err |-> "", subnet |-> <<172, 16, 1, 0, 24>>]
  /\ "front" \in DOMAIN files[NetworksJson]

---------------------------------------------------------------------------
(* Properties of startVM (SpecMount) *)

\* C8: for every bind mount that has an entry in the mounts of the seed, the 9p
\* tag of that entry is the mount_tag of the -virtfs argument of the same bind
\* mount in the argv of the unit, whatever the automount settings of the bind
\* mounts of the VM
C8_SeedTagIsVirtfsTag ==
  (ret # Pending /\ isVMRunning(World, "web") /\ IsoPath("web") \in DOMAIN files) =>
    LET mounts == files[IsoPath("web")].userData.mounts
        argv == vmUnits[getVMUnitName("web")].argv
    IN  \A e \in DOMAIN mounts : \A a \in DOMAIN argv :
          (/\ mounts[e].fstype = "9p"
           /\ argv[a].opt = "-virtfs"
           /\ argv[a].entry = mounts[e].entry)
            => argv[a].mount_tag = mounts[e].source

\* C22: every automounted bind mount that is declared read-only has the ro
\* option in its entry of the mounts of the seed, with the default 9p options
\* and with mount_options given.  (An options string carries the options
\* that its commas separate.)
C22_ReadOnlyBindMountIsRo ==
  (ret # Pending /\ isVMRunning(World, "web") /\ IsoPath("web") \in DOMAIN files) =>
    LET mounts == files[IsoPath("web")].userData.mounts
        OptionsOf(s) == IF s = "trans=virtio,cache=mmap"
                          THEN {"trans=virtio", "cache=mmap"}
                        ELSE IF s = "trans=virtio,version=9p2000.L"
                          THEN {"trans=virtio", "version=9p2000.L"}
                        ELSE {s}
    IN  \A e \in DOMAIN mounts :
          (mounts[e].fstype = "9p" /\ call.vm.Volumes[mounts[e].entry].ReadOnly)
          => "ro" \in UNION {OptionsOf(mounts[e].options[k]) :
                               k \in DOMAIN mounts[e].options}

---------------------------------------------------------------------------
(* Properties of getVMStatus (SpecStatus) *)

\* C9: getVMStatus answers not-created exactly when the overlay disk is absent;
\* otherwise unknown when the query of the unit fails, stopped when the unit is
\* in any state other than active, ready when it is active and the SSH probe
\* succeeds, starting when it is active and the probe does not succeed; the
\* answer is always one of not-created, stopped, starting, ready, active, unknown
C9_StatusDecisionTable ==
  ret # Pending =>
    /\ (ret.status = "not-created") <=> ~call.created
    /\ call.created =>
         ret.status =
           IF call.queryFailed THEN "unknown"
           ELSE IF call.activeState # "active" THEN "stopped"
           ELSE IF /\ call.probe
                   /\ PortsPath(call.vmName) \in DOMAIN files
                   /\ <<"ssh", "id_ed25519">> \in DOMAIN files
             THEN "ready"
           ELSE "starting"
    /\ ret.status \in {"not-created", "stopped", "starting", "ready", "active", "unknown"}

---------------------------------------------------------------------------
(* Properties of allocateSSHPort (SpecPort) *)

\* C10: for a VM whose port is not pinned: when its ports.json records a port on
\* which nothing listens, that port is returned and no file changes; otherwise
\* the first port of 2222..2322 on which nothing listens and that the ports.json
\* of no other VM records is returned and written to the ports.json of the VM;
\* when there is no such port an error is returned
C10_PortReusedOrFirstFree ==
  LET own == IF PortsPath(call.vmName) \in DOMAIN call.files
               THEN call.files[PortsPath(call.vmName)].SSH ELSE 0
      others == {call.files[PortsPath(v)].SSH :
                   v \in {u \in VMNames \ {call.vmName} :
                            PortsPath(u) \in DOMAIN call.files}}
      free == {p \in 2222..2322 : p \notin busy /\ p \notin others}
      first == CHOOSE p \in free : \A q \in free : p =< q
  IN  (ret # Pending /\ Config.VMs[call.vmName].SSHPort = 0) =>
        IF own > 0 /\ own \notin busy
          THEN ret = [err |-> "", port |-> own] /\ files = call.files
        ELSE IF free = {} THEN ret.err # ""
        ELSE /\ ret = [err |-> "", port |-> first]
             /\ files = Put(call.files, PortsPath(call.vmName), [SSH |-> first])

\* the cases of C10 happen: the port that web had recorded is listened on, the
\* first port is recorded by another VM, and web has got and recorded the third
C10_Witness ==
  /\ PortsPath("web") \in DOMAIN call.files
  /\ call.files[PortsPath("web")].SSH = 2222
  /\ 2222 \in busy
  /\ 2223 \notin busy
  /\ PortsPath("volumes") \in DOMAIN call.files
  /\ call.files[PortsPath("volumes")].SSH = 2223
  /\ ret = [err |-> "", port |-> 2224]
  /\ files[PortsPath("web")].SSH = 2224

---------------------------------------------------------------------------
(* Properties of the commands, continued *)

\* C11: an up of a VM whose unit is active does nothing: no file or directory
\* is created, no metadata file changes, no link or iptables rule changes and
\* no unit is registered; the command reports the VM as already running and
\* exits with status 0
C11_RepeatedUpIsNoOp ==
  [][\A v \in VMNames :
       (call'.op = "up" /\ call'.args = {v} /\ ran' = ran + 1 /\ isVMRunning(World, v))
       => /\ dirs' = dirs
          /\ files' = files
          /\ links' = links
          /\ rules' = rules
          /\ vmUnits' = vmUnits
          /\ dhcpUnits' = dhcpUnits
          /\ ret' = [code |-> 0, out |-> (v :> "already running")]]_vars

\* the case of C11 happens: web was running and an up of web has been issued
C11_Witness ==
  /\ call = [op |-> "up", args |-> {"web"}]
  /\ ret = [code |-> 0, out |-> ("web" :> "already running")]
  /\ isVMRunning(World, "web")

---------------------------------------------------------------------------
(* up and stop of one VM between edits of the compose file: every command   *)
(* runs with the image URL that the compose file declares at that time     *)

\* the compose file of a run: the VM as declared, with the image of that run
Declared(vmName, image) == [Config.VMs[vmName] EXCEPT !.Image = image]

InitDisk ==
  /\ dirs = {}
  /\ files = EmptyMap
  /\ links = EmptyMap
  /\ rules = {}
  /\ vmUnits = EmptyMap
  /\ dhcpUnits = EmptyMap
  /\ cache = {ImageFilenames[url] : url \in DOMAIN ImageFilenames}
  /\ busy = {}
  /\ call = [op |-> "none"]
  /\ ret = [code |-> 0]
  /\ ran = 0

\* qemu-compose up VM, the compose file declaring image for the VM
UpDeclared(vmName, image) ==
  /\ Issue
  /\ call' = [op |-> "up", args |-> {vmName}, image |-> image]
  /\ Exits(upCmdVM(Entry, vmName, Declared(vmName, image), "none"))

\* qemu-compose stop VM, the compose file declaring image for the VM
StopDeclared(vmName, image) ==
  /\ Issue
  /\ call' = [op |-> "stop", args |-> {vmName}, image |-> image]
  /\ Exits(stopCmdVM(Entry, vmName, Declared(vmName, image), "none"))

\* the disk blocks a compose file declares for a VM: none, one without a
\* size, or a size
DiskConfigs == {Nil, Ptr([Size |-> ""]), Ptr([Size |-> "5G"]), Ptr([Size |-> "20G"])}

\* the command ends; the warnings it printed are part of what it returns
ExitsWarned(w) ==
  /\ Becomes(w)
  /\ ret' = [code |-> IF w.hasError THEN 1 ELSE 0, out |-> w.out, warned |-> w.warned]

\* qemu-compose up VM, the compose file declaring diskConfig for the VM;
\* f: qemu-img resize may fail
UpResized(vmName, diskConfig, f) ==
  /\ Issue
  /\ call' = [op |-> "up", args |-> {vmName}, image |-> Config.VMs[vmName].Image,
              disk |-> diskConfig]
  /\ ExitsWarned(upCmdVM(Entry, vmName, [Config.VMs[vmName] EXCEPT !.Disk = diskConfig],
                         f))

SpecDisk ==
  InitDisk
    /\ [][\/ \E vmName \in VMNames, image \in DOMAIN ImageFilenames :
               UpDeclared(vmName, image) \/ StopDeclared(vmName, image)
          \/ \E vmName \in VMNames, diskConfig \in DiskConfigs,
                f \in {"none", "qemu-img resize"} :
               UpResized(vmName, diskConfig, f)]_vars

\* C12: a VM that an up has just started has its overlay disk, and the backing
\* file of the overlay is the cached base image of the image URL that the
\* compose file of that up declares for the VM
C12_OverlayBacksDeclaredImage ==
  \A v \in VMNames :
    (/\ call.op = "up"
     /\ call.args = {v}
     /\ ret.out[v] = "started"
     /\ isVMRunning(World, v))
    => /\ DiskPath(v) \in DOMAIN files
       /\ files[DiskPath(v)].backing = <<"images", ImageFilenames[call.image]>>
\* C21: an up of a VM that does not run, with disk.size as the compose file of
\* that run declares it (10G when none is declared).  An overlay that exists
\* is left as it is; its disk.metadata.json is left as it is when there is
\* one, with a warning exactly when the declared size is not the stored one,
\* and is written with the declared size when there is none.  When the
\* overlay is created, disk.metadata.json is written only once the overlay
\* has been resized, with the size it was resized to.  stop and an up of a
\* running VM write no file.
C21_DiskMetadataWrittenOnce ==
  [][\A v \in VMNames :
       (call'.args = {v} /\ ran' = ran + 1)
       => IF "disk" \in DOMAIN call' /\ ~isVMRunning(World, v)
            THEN IF DiskPath(v) \in DOMAIN files
                   THEN /\ files'[DiskPath(v)] = files[DiskPath(v)]
                        /\ DiskMetadataPath(v) \in DOMAIN files'
                        /\ IF DiskMetadataPath(v) \in DOMAIN files
                             THEN /\ files'[DiskMetadataPath(v)] = files[DiskMetadataPath(v)]
                                  /\ (<<v, "disk.size">> \in ret'.warned)
                                       <=> (files[DiskMetadataPath(v)].Size
                                              # (IF call'.disk = Nil THEN "10G"
                                                 ELSE IF call'.disk[1].Size = "" THEN "10G"
                                                 ELSE call'.disk[1].Size))
                             ELSE /\ files'[DiskMetadataPath(v)].Size
                                       = (IF call'.disk = Nil THEN "10G"
                                          ELSE IF call'.disk[1].Size = "" THEN "10G"
                                          ELSE call'.disk[1].Size)
                                  /\ ret'.warned = {}
                   ELSE /\ ret'.warned = {}
                        /\ DiskMetadataPath(v) \in DOMAIN files'
                             => /\ files'[DiskMetadataPath(v)].Size
                                     = (IF call'.disk = Nil THEN "10G"
                                        ELSE IF call'.disk[1].Size = "" THEN "10G"
                                        ELSE call'.disk[1].Size)
                                /\ files'[DiskPath(v)].size = files'[DiskMetadataPath(v)].Size
            ELSE (call'.op = "stop" \/ isVMRunning(World, v))
                 => \A u \in VMNames :
                   /\ DiskMetadataPath(u) \in DOMAIN files
                        <=> DiskMetadataPath(u) \in DOMAIN files'
                   /\ DiskMetadataPath(u) \in DOMAIN files
                        => files'[DiskMetadataPath(u)] = files[DiskMetadataPath(u)]
                   /\ DiskPath(u) \in DOMAIN files
                        => files'[DiskPath(u)] = files[DiskPath(u)]]_vars

\* web was created with 5G, stopped, and brought up again with 20G declared:
\* the warning was printed, and the overlay and the stored size are 5G
C21_Witness ==
  /\ "disk" \in DOMAIN call
  /\ call.args = {"web"} /\ call.disk = Ptr([Size |-> "20G"])
  /\ ret.out["web"] = "started"
  /\ ret.warned = {<<"web", "disk.size">>}
  /\ files[DiskPath("web")].size = "5G"
  /\ files[DiskMetadataPath("web")] = [Size |-> "5G"]

----------------------------------------------------------------------------
(* Project identity: getProjectName and getInstanceDir under os.Getwd, for
   runs given the compose file with -f.  Paths are absolute here. *)

\* directories a run can be started from; each holds a compose file
WorkingDirs == { <<"home", "a">>, <<"home", "b">>, <<"srv", "a">>, <<"srv">> }

\* getProjectName: filepath.Base(cwd)
getProjectNameAt(cwd) == cwd[Len(cwd)]

\* getInstanceDir: filepath.Join(cwd, ".qemu-compose", vmName), created
getInstanceDirAt(w, cwd, vmName) == MkdirAll(w, cwd \o <<".qemu-compose", vmName>>)

\* a command run in cwd with -f composeDir/qemu-compose.yaml; the run
\* before it is remembered in call.before
RunAt(cwd, composeDir) ==
  /\ Issue
  /\ call' = [op |-> "run", cwd |-> cwd, composeDir |-> composeDir,
              before |-> IF call.op = "run"
                         THEN <<[composeDir |-> call.composeDir,
                                 project |-> ret.project,
                                 workspace |-> ret.workspace]>>
                         ELSE <<>>]
  /\ LET w == getInstanceDirAt(World, cwd, "web")
     IN  /\ dirs' = w.dirs
         /\ ret' = [code |-> 0,
                    project |-> getProjectNameAt(cwd),
                    workspace |-> cwd \o <<".qemu-compose">>]
  /\ UNCHANGED <<files, links, rules, vmUnits, dhcpUnits, cache, busy>>

SpecProject ==
  Init /\ [][\E cwd \in WorkingDirs, composeDir \in WorkingDirs :
               RunAt(cwd, composeDir)]_vars

\* C13: the project name and the workspace location are a function of the
\* compose file's directory only: two runs given the same compose file with
\* -f, from whatever working directories, have the same project name and
\* the same workspace.
C13_ProjectIsOfComposeDir ==
  (call.op = "run" /\ call.before # <<>>
     /\ call.before[1].composeDir = call.composeDir)
  => /\ ret.project = call.before[1].project
     /\ ret.workspace = call.before[1].workspace

\* C14: for every VM with a unit and a seed, and every interface index i (one
\* per declared network, then the SSH-forwarding interface at index
\* Len(Networks)), the MAC address of entry net<i> of the seed's
\* network-config is the mac= of the -device bound to netdev=net<i> in the
\* unit's argv, and both are generateMACAddress(vm, i), which begins 52:54:00.
C14_SeedMacIsDeviceMac ==
  \A v \in VMNames :
    (isVMRunning(World, v) /\ IsoPath(v) \in DOMAIN files)
    => LET argv == vmUnits[getVMUnitName(v)].argv
           seed == files[IsoPath(v)].networkConfig
           devices == {k \in DOMAIN argv : argv[k].opt = "-device"}
       IN  /\ Len(seed) = Len(Config.VMs[v].Networks) + 1
           /\ {argv[k].netdev : k \in devices} = 0..(Len(seed) - 1)
           /\ \A k \in devices :
                /\ argv[k - 1].opt = "-netdev" /\ argv[k - 1].id = argv[k].netdev
                /\ argv[k].mac = seed[argv[k].netdev + 1]
                /\ argv[k].mac = generateMACAddress(v, argv[k].netdev)
                /\ SubSeq(argv[k].mac, 1, 9) = <<"5","2",":","5","4",":","0","0",":">>
           /\ \A i \in 0..(Len(seed) - 1) :
                Cardinality({k \in devices : argv[k].netdev = i}) = 1

\* web runs with its two TAP interfaces and the SSH-forwarding one, and its
\* seed names three MAC addresses
C14_Witness ==
  /\ isVMRunning(World, "web")
  /\ IsoPath("web") \in DOMAIN files
  /\ Len(files[IsoPath("web")].networkConfig) = 3
  /\ vmUnits[getVMUnitName("web")].sshPort > 0

----------------------------------------------------------------------------
(* The project SSH key under concurrent creators: getProjectSSHPublicKey
   step by step (os.Stat of the public key, ssh-keygen writing the private
   key and then the public key, os.ReadFile), one call at a time per creator.
   call.at is the position of each creator, ret.key what its last call
   returned and ret.generated the number of key pairs written. *)

\* processes that build a seed in the same project at the same time
Creators == {"up", "up web", "up volumes", "up bad"}

PrivateKeyPath == <<"ssh", "id_ed25519">>

PublicKeyPath == <<"ssh", "id_ed25519.pub">>

InitKey ==
  /\ dirs = {}
  /\ files = EmptyMap
  /\ links = EmptyMap
  /\ rules = {}
  /\ vmUnits = EmptyMap
  /\ dhcpUnits = EmptyMap
  /\ cache = {}
  /\ busy = {}
  /\ call = [op |-> "ssh key", at |-> [p \in Creators |-> "idle"]]
  /\ ret = [code |-> 0, key |-> [p \in Creators |-> <<>>], generated |-> 0]
  /\ ran = 0

\* getProjectSSHPublicKey returns to generateCloudInitISOWithVolumes, which
\* on an error goes on with an empty key; existed: the public key file was
\* there when the call returned
Returns(p, key, err) ==
  /\ call' = [call EXCEPT !.at[p] = "returned"]
  /\ ret' = [ret EXCEPT !.key[p] = <<[sshPublicKey |-> IF err THEN "" ELSE key,
                                      err |-> err,
                                      existed |-> PublicKeyPath \in DOMAIN files']>>]

\* a call begins: os.Stat(publicKeyPath); the key is read when it is there
StatPublicKey(p) ==
  /\ call.at[p] \in {"idle", "returned"}
  /\ IF PublicKeyPath \in DOMAIN files
       THEN /\ UNCHANGED <<dirs, files>>
            /\ Returns(p, files[PublicKeyPath], FALSE)
       ELSE /\ call' = [call EXCEPT !.at[p] = "ssh-keygen"]
            /\ ret' = [ret EXCEPT !.key[p] = <<>>]
            /\ dirs' = MkdirAll(World, SshDir).dirs
            /\ UNCHANGED files
  /\ UNCHANGED <<links, rules, vmUnits, dhcpUnits, cache, busy, ran>>

\* ssh-keygen -f id_ed25519 without a terminal: it fails when the key file
\* exists, and the call returns the error; else it writes the private key
SshKeygen(p) ==
  /\ call.at[p] = "ssh-keygen"
  /\ IF PrivateKeyPath \in DOMAIN files
       THEN /\ UNCHANGED files
            /\ Returns(p, "", TRUE)
       ELSE /\ files' = WriteFile(World, PrivateKeyPath, "private key").files
            /\ call' = [call EXCEPT !.at[p] = "ssh-keygen .pub"]
            /\ ret' = [ret EXCEPT !.generated = @ + 1]
  /\ UNCHANGED <<dirs, links, rules, vmUnits, dhcpUnits, cache, busy, ran>>

\* ssh-keygen writes the public key; the call reads it and returns it
SshKeygenPub(p) ==
  /\ call.at[p] = "ssh-keygen .pub"
  /\ files' = WriteFile(World, PublicKeyPath, "public key").files
  /\ Returns(p, "public key", FALSE)
  /\ UNCHANGED <<dirs, links, rules, vmUnits, dhcpUnits, cache, busy, ran>>

SpecKey ==
  InitKey /\ [][\E p \in Creators :
                  StatPublicKey(p) \/ SshKeygen(p) \/ SshKeygenPub(p)]_vars

\* C16: the key pair is written at most once, and a call that returns while
\* id_ed25519.pub exists returns its content: also the call of a creator
\* whose ssh-keygen failed because the key file was there already.
C16_ExistingKeyIsReturned ==
  /\ ret.generated <= 1
  /\ \A p \in Creators :
       (ret.key[p] # <<>> /\ ret.key[p][1].existed)
       => /\ ~ret.key[p][1].err
          /\ ret.key[p][1].sshPublicKey = files[PublicKeyPath]

----------------------------------------------------------------------------
(* Properties of the status query, continued *)

\* C17: a status query (getVMStatus, as ps, ps --wait and inspect run it) only
\* reads: it creates, modifies and deletes no file and no directory of the
\* workspace.
C17_StatusOnlyReads ==
  [][(ret = Pending /\ ret' # Pending) => (dirs' = dirs /\ files' = files)]_vars

----------------------------------------------------------------------------
(* The network fabric of a VM set up again and again: setupVMNetworks run
   to its end, with one of its calls failing or not.  A process that is
   killed at a call leaves the host as the failure of that call leaves it. *)

\* the calls of setupVMNetworks one of which may fail
FabricFaults ==
  {"none", "LinkAdd bridge", "LinkSetUp bridge", "LinkAdd tap", "LinkSetUp tap",
   "dnsmasq", "iptables"}

Fabricated(w) ==
  /\ Becomes(w)
  /\ ret' = [code |-> IF Failed(w) THEN 1 ELSE 0]

SetupNetworks(vmName, f) ==
  /\ Len(Config.VMs[vmName].Networks) > 0
  /\ Issue
  /\ call' = [op |-> "setupVMNetworks", vm |-> vmName]
  /\ Fabricated(setupVMNetworks(Entry, vmName, Config.VMs[vmName], f))

\* the TAP devices of a VM are deleted, as stop does
CleanupNetworks(vmName) ==
  /\ Len(Config.VMs[vmName].Networks) > 0
  /\ Issue
  /\ call' = [op |-> "cleanupVMNetworks", vm |-> vmName]
  /\ Fabricated(cleanupVMNetworks(Entry, vmName, Config.VMs[vmName]))

SpecFabric ==
  Init /\ [][\E vmName \in VMNames :
               \/ \E f \in FabricFaults : SetupNetworks(vmName, f)
               \/ CleanupNetworks(vmName)]_vars

\* C18: whenever setupVMNetworks of a VM returns success, however earlier
\* runs ended, the bridge of each of its networks exists, is up and has the
\* .1 address of the network's subnet, and each TAP device of the VM exists,
\* is up and is enslaved to its bridge.
C18_FabricIsReconciled ==
  (call.op = "setupVMNetworks" /\ ret.code = 0)
  => \A i \in DOMAIN Config.VMs[call.vm].Networks :
       LET n == Config.VMs[call.vm].Networks[i]
           b == getBridgeName(n)
           t == getTAPName(call.vm, i - 1)
       IN  /\ b \in DOMAIN links /\ t \in DOMAIN links
           /\ links[b].kind = "bridge" /\ links[b].up
           /\ links[b].addrs =
                {getBridgeIP(IF Config.Networks[n].Subnet = "auto"
                               THEN loadNetworkMetadata(World)[n].Subnet
                               ELSE Config.Networks[n].Subnet)}
           /\ links[t].kind = "tap" /\ links[t].up /\ links[t].master = b

----------------------------------------------------------------------------
(* Properties of stop and destroy *)

\* C19: stop of one VM that runs and is stopped removes its unit and deletes
\* exactly its TAP devices: every other link (bridges, TAP devices of other
\* VMs), the DHCP units, the iptables rules and every file and directory
\* (networks.json, named volumes, the overlay) are as before.  stop of a VM
\* that does not run changes nothing, reports it as not running and exits
\* with status 0.
C19_StopDeletesOnlyItsTaps ==
  [][\A v \in VMNames :
       (call'.op = "stop" /\ call'.args = {v} /\ ran' = ran + 1)
       => /\ (isVMRunning(World, v) /\ ret'.out[v] = "stopped")
               => /\ vmUnits' = Del(vmUnits, getVMUnitName(v))
                  /\ links' = Restrict(links,
                                DOMAIN links
                                  \ {getTAPName(v, i - 1) :
                                       i \in DOMAIN Config.VMs[v].Networks})
                  /\ dhcpUnits' = dhcpUnits /\ rules' = rules
                  /\ files' = files /\ dirs' = dirs
                  /\ ret'.code = 0
          /\ ~isVMRunning(World, v)
               => /\ vmUnits' = vmUnits /\ links' = links
                  /\ dhcpUnits' = dhcpUnits /\ rules' = rules
                  /\ files' = files /\ dirs' = dirs
                  /\ ret' = [code |-> 0, out |-> (v :> "not running")]]_vars

\* web was stopped: its TAP devices are gone, the bridges of its networks
\* and the TAP device of bad are there, and so is its overlay
C19_Witness ==
  /\ call = [op |-> "stop", args |-> {"web"}]
  /\ ret = [code |-> 0, out |-> ("web" :> "stopped")]
  /\ getTAPName("web", 0) \notin DOMAIN links
  /\ getTAPName("web", 1) \notin DOMAIN links
  /\ getTAPName("bad", 0) \in DOMAIN links
  /\ getBridgeName("front") \in DOMAIN links
  /\ getBridgeName("back") \in DOMAIN links
  /\ getDnsmasqUnitName("front") \in DOMAIN dhcpUnits
  /\ DiskPath("web") \in DOMAIN files

\* C20: stop and destroy are idempotent.  From every reachable state, for
\* every selection of VMs and every order in which the two executions visit
\* them, neither execution reports a failure when no external call fails, and
\* the command executed a second time right after the first leaves what the
\* first left.
C20_StopDestroyIdempotent ==
  LET Begins(w) == [w EXCEPT !.err = "", !.subnet = "", !.base = <<>>, !.mounts = <<>>,
                             !.port = 0, !.iso = <<>>, !.out = EmptyMap,
                             !.hasError = FALSE]
      Same(w1, w2) == /\ w1.dirs = w2.dirs /\ w1.files = w2.files
                      /\ w1.links = w2.links /\ w1.rules = w2.rules
                      /\ w1.vmUnits = w2.vmUnits /\ w1.dhcpUnits = w2.dhcpUnits
                      /\ w1.cache = w2.cache /\ w1.busy = w2.busy
      Visits(args) == Orders(filterVMs(args))
  IN  \A args \in Selections :
        \A o1 \in Visits(args) :
          /\ LET once == stopCmd(Entry, args, o1, "none")
             IN  /\ ~once.hasError
                 /\ \A o2 \in Visits(args) :
                      LET twice == stopCmd(Begins(once), args, o2, "none")
                      IN  Same(twice, once) /\ ~twice.hasError
          /\ LET once == destroyCmd(Entry, args, o1, "none")
             IN  /\ ~once.hasError
                 /\ \A o2 \in Visits(args) :
                      LET twice == destroyCmd(Begins(once), args, o2, "none")
                      IN  Same(twice, once) /\ ~twice.hasError

\* web and volumes run, the fabric of web is up and the named volume exists:
\* a state in which stop and destroy of all VMs both change the host
C20_Witness ==
  /\ isVMRunning(World, "web") /\ isVMRunning(World, "volumes")
  /\ getTAPName("web", 0) \in DOMAIN links
  /\ getBridgeName("front") \in DOMAIN links
  /\ DiskPath("web") \in DOMAIN files
  /\ VolumeDiskPath("data") \in DOMAIN files
  /\ stopCmd(Entry, {}, <<"bad", "volumes", "web">>, "none").links # links
  /\ destroyCmd(Entry, {}, <<"bad", "volumes", "web">>, "none").files # files

---------------------------------------------------------------------------
(* qemu-compose pull, step by step: downloadImage between its requests to  *)
(* the server and the file system (SpecPull)                                *)

\* the number of pull commands a run of the model issues
MaxPulls == 3

\* the number of blocks io.Copy writes for an image
ImageChunks == 2

\* the file of a name in the image cache (~/.local/share/qemu-compose/images)
CachePath(filename) == <<"~", ".local", "share", "qemu-compose", "images", filename>>

\* faulty temporary path: the download is written under the final name
TempPathInPlace(destPath) == destPath

\* the temporary file of a download: destPath + ".tmp"
TempPath(destPath) == destPath \o <<".tmp">>

\* the calls of downloadImage that may fail before the copy starts
DownloadFaults == {"none", "http.Do", "StatusCode", "os.Create"}

Idle == [op |-> "none", force |-> FALSE, todo |-> {}, cur |-> Nil, hasError |-> FALSE]

InitPull ==
  /\ dirs = {}
  /\ files = EmptyMap
  /\ links = EmptyMap
  /\ rules = {}
  /\ vmUnits = EmptyMap
  /\ dhcpUnits = EmptyMap
  /\ cache = {}
  /\ busy = {}
  /\ call = Idle
  /\ ret = [code |-> 0]
  /\ ran = 0

\* the names of the cache whose file is in files
Cached(fs) == {ImageFilenames[url] : url \in {u \in DOMAIN ImageFilenames :
                                              CachePath(ImageFilenames[u]) \in DOMAIN fs}}

\* qemu-compose pull [--force]: imagesToPull has the image URLs of the chosen
\* VMs; with none the command returns at once
PullCmd(imagesToPull, force) ==
  /\ ret # Pending
  /\ ran < MaxPulls
  /\ ran' = ran + 1
  /\ call' = [op |-> "pull", force |-> force, todo |-> imagesToPull, cur |-> Nil,
              hasError |-> FALSE]
  /\ ret' = IF imagesToPull = {} THEN [code |-> 0] ELSE Pending
  /\ UNCHANGED <<dirs, files, links, rules, vmUnits, dhcpUnits, cache, busy>>

\* downloadImage up to the creation of the temporary file: nothing to do
\* when the file is there and force is not set; the request, a status other
\* than 200 and os.Create are the errors it may return
DownloadBegins(imageURL, f) ==
  /\ ret = Pending
  /\ call.cur = Nil
  /\ imageURL \in call.todo
  /\ LET destPath == CachePath(getImageFilename(imageURL))
     IN  IF destPath \in DOMAIN files /\ ~call.force
           THEN /\ f = "none"
                /\ call' = [call EXCEPT !.todo = @ \ {imageURL}]
                /\ files' = files
           ELSE IF f # "none"
             THEN /\ call' = [call EXCEPT !.todo = @ \ {imageURL}, !.hasError = TRUE]
                  /\ files' = files
             ELSE /\ call' = [call EXCEPT !.cur = Ptr(imageURL)]
                  /\ files' = Put(files, TempPath(destPath),
                                  [url |-> imageURL, bytes |-> 0, pull |-> ran])
  /\ cache' = Cached(files')
  /\ UNCHANGED <<dirs, links, rules, vmUnits, dhcpUnits, busy, ret, ran>>

\* io.Copy writes one more block of the body to the temporary file
Copies ==
  /\ ret = Pending
  /\ call.cur # Nil
  /\ LET tempPath == TempPath(CachePath(getImageFilename(call.cur[1])))
     IN  /\ files[tempPath].bytes < ImageChunks
         /\ files' = [files EXCEPT ![tempPath].bytes = @ + 1]
  /\ cache' = Cached(files')
  /\ UNCHANGED <<dirs, links, rules, vmUnits, dhcpUnits, busy, call, ret, ran>>

\* io.Copy returns an error before the end of the body: the temporary file is
\* removed
CopyFails ==
  /\ ret = Pending
  /\ call.cur # Nil
  /\ LET tempPath == TempPath(CachePath(getImageFilename(call.cur[1])))
     IN  /\ files[tempPath].bytes < ImageChunks
         /\ files' = Del(files, tempPath)
  /\ cache' = Cached(files')
  /\ call' = [call EXCEPT !.todo = @ \ {call.cur[1]}, !.cur = Nil, !.hasError = TRUE]
  /\ UNCHANGED <<dirs, links, rules, vmUnits, dhcpUnits, busy, ret, ran>>

\* the body has been copied: os.Rename moves the temporary file to destPath;
\* when it fails the temporary file is removed
Renames(f) ==
  /\ ret = Pending
  /\ call.cur # Nil
  /\ LET destPath == CachePath(getImageFilename(call.cur[1]))
         tempPath == TempPath(destPath)
     IN  /\ files[tempPath].bytes = ImageChunks
         /\ files' = IF f = "os.Rename" THEN Del(files, tempPath)
                     ELSE Put(Del(files, tempPath), destPath, files[tempPath])
  /\ cache' = Cached(files')
  /\ call' = [call EXCEPT !.todo = @ \ {call.cur[1]}, !.cur = Nil,
                          !.hasError = @ \/ f = "os.Rename"]
  /\ UNCHANGED <<dirs, links, rules, vmUnits, dhcpUnits, busy, ret, ran>>

\* every image has been handled: exit status 1 when a download failed
PullExits ==
  /\ ret = Pending
  /\ call.cur = Nil
  /\ call.todo = {}
  /\ ret' = [code |-> IF call.hasError THEN 1 ELSE 0]
  /\ UNCHANGED <<dirs, files, links, rules, vmUnits, dhcpUnits, cache, busy, call, ran>>

\* the process is killed while the command runs: no deferred call, no removal
Interrupted ==
  /\ ret = Pending
  /\ call' = [call EXCEPT !.op = "killed", !.cur = Nil, !.todo = {}]
  /\ ret' = [code |-> 137]
  /\ UNCHANGED <<dirs, files, links, rules, vmUnits, dhcpUnits, cache, busy, ran>>

SpecPull ==
  InitPull
    /\ [][\/ \E imagesToPull \in SUBSET DOMAIN ImageFilenames, force \in BOOLEAN :
               PullCmd(imagesToPull, force)
          \/ \E imageURL \in DOMAIN ImageFilenames, f \in DownloadFaults :
               DownloadBegins(imageURL, f)
          \/ Copies
          \/ CopyFails
          \/ \E f \in {"none", "os.Rename"} : Renames(f)
          \/ PullExits
          \/ Interrupted]_vars

\* C24: a file comes to be, or changes, under the final cache name of an image
\* only by the rename of a temporary file that holds the whole body of that
\* image; every other step (a failed, an interrupted, a forced download under
\* way) leaves the file under the final name as it was, and a download that
\* finds the file there without force writes nothing.
C24_CachedFileIsComplete ==
  [][\A url \in DOMAIN ImageFilenames :
       LET destPath == CachePath(getImageFilename(url))
           tempPath == destPath \o <<".tmp">>
           was == IF destPath \in DOMAIN files THEN Ptr(files[destPath]) ELSE Nil
           is == IF destPath \in DOMAIN files' THEN Ptr(files'[destPath]) ELSE Nil
       IN  /\ is # was =>
                /\ call.cur = Ptr(url)
                /\ tempPath \in DOMAIN files
                /\ files[tempPath] = [url |-> url, bytes |-> ImageChunks, pull |-> ran]
                /\ is = Ptr(files[tempPath])
                /\ was = Nil \/ call.force
           /\ is # Nil => is[1].bytes = ImageChunks /\ is[1].url = url
           /\ (was # Nil /\ ~call.force) =>
                \/ tempPath \notin DOMAIN files'
                \/ tempPath \in DOMAIN files /\ files'[tempPath] = files[tempPath]
           /\ (destPath \in DOMAIN files) = (getImageFilename(url) \in cache)]_vars

\* a forced pull of an image that was in the cache has failed or was killed
\* with the body partly copied: the file of the first pull is in the cache
C24_Witness ==
  /\ call.op \in {"pull", "killed"} /\ call.force
  /\ ret # Pending /\ ret.code # 0
  /\ ran = 2
  /\ CachePath("cloud.img") \in DOMAIN files
  /\ files[CachePath("cloud.img")] = [url |-> "https://example/cloud.img",
                                      bytes |-> ImageChunks, pull |-> 1]
  /\ (call.op = "killed") =>
        /\ TempPath(CachePath("cloud.img")) \in DOMAIN files
        /\ files[TempPath(CachePath("cloud.img"))].bytes = 1

---------------------------------------------------------------------------
(* The address of a VM as ps and inspect show it: getVMIPAddress reads the  *)
(* journal of the DHCP unit of the first network of the VM (SpecLease)      *)

\* the number of lines the journal of a DHCP unit gets in a run of the model
MaxLines == 2

\* the hardware addresses the kernel may give to a link that is added without
\* one: the address is random, so it may be any, the address of the NIC of
\* the guest included
HardwareAddrs ==
  { <<"2","a",":","7","f",":","3","c",":","1","1",":","9","0",":","e","4">>,
    generateMACAddress("web", 0) }

\* the clients that ask the DHCP unit of a network for a lease
ClientMacs == {generateMACAddress("web", 0), generateMACAddress("web", 1)}

\* the lines of the journal of a DHCP unit: journalctl -n 100 shows the last
\* 100 of them
JournalOf(w, unitName) ==
  LET lines == IF "journal" \in DOMAIN w.dhcpUnits[unitName]
                 THEN w.dhcpUnits[unitName].journal ELSE <<>>
  IN  SubSeq(lines, IF Len(lines) > 100 THEN Len(lines) - 99 ELSE 1, Len(lines))

\* the loop of getVMIPAddress over the lines, from line i down to the first:
\* the address of the latest DHCPREPLY or DHCPACK line whose field after the
\* address is tapMAC, the empty string when there is none
RECURSIVE ScanLines(_, _, _)
ScanLines(lines, i, tapMAC) ==
  IF i < 1 THEN <<>>
  ELSE IF lines[i].kind \notin {"DHCPREPLY", "DHCPACK"}
    THEN ScanLines(lines, i - 1, tapMAC)
  ELSE IF lines[i].mac = tapMAC THEN lines[i].ip
  ELSE ScanLines(lines, i - 1, tapMAC)

\* getVMIPAddress: tapMAC is the hardware address that netlink reports for
\* the first TAP device of the VM
getVMIPAddress(w, vmName, vm) ==
  IF Len(vm.Networks) = 0 THEN <<>>
  ELSE IF ~isDnsmasqRunning(w, vm.Networks[1]) THEN <<>>
  ELSE IF getTAPName(vmName, 0) \notin DOMAIN w.links THEN <<>>
  ELSE ScanLines(JournalOf(w, getDnsmasqUnitName(vm.Networks[1])),
                 Len(JournalOf(w, getDnsmasqUnitName(vm.Networks[1]))),
                 w.links[getTAPName(vmName, 0)].mac)

InitLease ==
  /\ dirs = {}
  /\ files = EmptyMap
  /\ links = EmptyMap
  /\ rules = {}
  /\ vmUnits = EmptyMap
  /\ dhcpUnits = EmptyMap
  /\ cache = {"cloud.img"}
  /\ busy = {}
  /\ call = [op |-> "none"]
  /\ ret = [code |-> 0]
  /\ ran = 0

\* the links of w, the kernel having given hw to those that had no address
Addressed(w, hw) ==
  [n \in DOMAIN w.links |->
     IF "mac" \in DOMAIN w.links[n] THEN w.links[n] ELSE [mac |-> hw] @@ w.links[n]]

\* qemu-compose up VM or stop VM; hw: the hardware address the links get
\* that the command adds
Runs(op, vmName, hw) ==
  /\ Issue
  /\ call' = [op |-> op, args |-> {vmName}]
  /\ LET w == IF op = "up" THEN upCmdVM(Entry, vmName, Config.VMs[vmName], "none")
              ELSE stopCmdVM(Entry, vmName, Config.VMs[vmName], "none")
     IN  /\ dirs' = w.dirs
         /\ files' = w.files
         /\ links' = Addressed(w, hw)
         /\ rules' = w.rules
         /\ vmUnits' = w.vmUnits
         /\ dhcpUnits' = w.dhcpUnits
         /\ cache' = w.cache
         /\ busy' = w.busy
         /\ ret' = [code |-> IF w.hasError THEN 1 ELSE 0]

\* the DHCP unit of a network answers the client mac: dnsmasq logs the line
\* "<kind>(<bridge>) <ip> <mac>"; the address is the k-th of its range.  A run
\* of the model follows the journal of one unit.
Logs(networkName, kind, k, mac) ==
  /\ isDnsmasqRunning(World, networkName)
  /\ LET unitName == getDnsmasqUnitName(networkName)
         unit == dhcpUnits[unitName]
         journal == IF "journal" \in DOMAIN unit THEN unit.journal ELSE <<>>
         line == [kind |-> kind, mac |-> mac,
                  ip |-> <<unit.rangeFrom[1], unit.rangeFrom[2], unit.rangeFrom[3],
                           unit.rangeFrom[4] + k>>]
     IN  /\ Cardinality({u \in DOMAIN dhcpUnits : "journal" \in DOMAIN dhcpUnits[u]}) = 0
             \/ "journal" \in DOMAIN unit
         /\ Len(journal) < MaxLines
         /\ dhcpUnits' = Put(Del(dhcpUnits, unitName), unitName,
                             [journal |-> Append(journal, line)] @@ unit)
  /\ UNCHANGED <<dirs, files, links, rules, vmUnits, cache, busy, call, ret, ran>>

\* ps or inspect asks for the address of a VM
GetVMIPAddress(vmName) ==
  /\ Issue
  /\ call' = [op |-> "getVMIPAddress", args |-> {vmName}]
  /\ ret' = [code |-> 0, ip |-> getVMIPAddress(World, vmName, Config.VMs[vmName])]
  /\ UNCHANGED <<dirs, files, links, rules, vmUnits, dhcpUnits, cache, busy>>

SpecLease ==
  InitLease
    /\ [][\/ \E op \in {"up", "stop"}, hw \in HardwareAddrs : Runs(op, "web", hw)
          \/ \E networkName \in NetworkNames, kind \in {"DHCPACK", "DHCPREQUEST"},
                k \in 0..1, mac \in ClientMacs :
               Logs(networkName, kind, k, mac)
          \/ \E vmName \in {"web", "volumes"} : GetVMIPAddress(vmName)]_vars

\* C25: for a running VM with networks, getVMIPAddress returns the address of
\* the latest DHCPACK or DHCPREPLY line that the DHCP unit of the first network
\* of the VM has logged for the NIC of the guest, and the empty string when
\* there is no such line.
C25_LeasedAddressIsReturned ==
  [][\A v \in {"web", "volumes"} :
       (call'.op = "getVMIPAddress" /\ call'.args = {v} /\ ran' = ran + 1
          /\ isVMRunning(World, v) /\ Len(Config.VMs[v].Networks) > 0)
       => LET journal == JournalOf(World, getDnsmasqUnitName(Config.VMs[v].Networks[1]))
              acks == {i \in DOMAIN journal :
                         /\ journal[i].kind \in {"DHCPACK", "DHCPREPLY"}
                         /\ journal[i].mac = generateMACAddress(v, 0)}
          IN  ret'.ip = IF acks = {} THEN <<>>
                        ELSE journal[CHOOSE i \in acks : \A j \in acks : j <= i].ip]_vars

---------------------------------------------------------------------------
(* How the QEMU process of a VM ends: the guest powers itself off, or the   *)
(* unit is stopped from the host (SpecShutdown)                             *)

InitShutdown ==
  /\ dirs = {}
  /\ files = EmptyMap
  /\ links = EmptyMap
  /\ rules = {}
  /\ vmUnits = EmptyMap
  /\ dhcpUnits = EmptyMap
  /\ cache = {"cloud.img"}
  /\ busy = {}
  /\ call = [op |-> "none"]
  /\ ret = [code |-> 0]
  /\ ran = 0

\* the command ends; the guest of every unit that it has registered is up
ExitsBooted(w) ==
  /\ dirs' = w.dirs
  /\ files' = w.files
  /\ links' = w.links
  /\ rules' = w.rules
  /\ vmUnits' = [u \in DOMAIN w.vmUnits |->
                   IF "guest" \in DOMAIN w.vmUnits[u] THEN w.vmUnits[u]
                   ELSE [guest |-> "up"] @@ w.vmUnits[u]]
  /\ dhcpUnits' = w.dhcpUnits
  /\ cache' = w.cache
  /\ busy' = w.busy
  /\ ret' = [code |-> IF w.hasError THEN 1 ELSE 0, out |-> w.out]

\* qemu-compose up, stop or destroy of one VM
Commands(op, vmName, f) ==
  /\ Issue
  /\ call' = [op |-> op, args |-> {vmName}]
  /\ ExitsBooted(IF op = "up" THEN upCmdVM(Entry, vmName, Config.VMs[vmName], f)
                 ELSE IF op = "stop" THEN stopCmdVM(Entry, vmName, Config.VMs[vmName], f)
                 ELSE destroyCmdVM(Entry, vmName, Config.VMs[vmName], f))

\* sudo systemctl poweroff is executed inside the VM
PowersOff(vmName) ==
  /\ isVMRunning(World, vmName)
  /\ vmUnits[getVMUnitName(vmName)].guest = "up"
  /\ vmUnits' = [vmUnits EXCEPT ![getVMUnitName(vmName)].guest = "off"]
  /\ UNCHANGED <<dirs, files, links, rules, dhcpUnits, cache, busy, call, ret, ran>>

\* the guest is off: the QEMU process exits and its unit with it
QemuExits(vmName) ==
  /\ isVMRunning(World, vmName)
  /\ vmUnits[getVMUnitName(vmName)].guest = "off"
  /\ vmUnits' = Del(vmUnits, getVMUnitName(vmName))
  /\ UNCHANGED <<dirs, files, links, rules, dhcpUnits, cache, busy, call, ret, ran>>

SpecShutdown ==
  InitShutdown
    /\ [][\/ \E op \in {"up", "stop", "destroy"}, vmName \in {"web", "volumes"},
                f \in {"none", "systemctl stop"} : Commands(op, vmName, f)
          \/ \E vmName \in {"web", "volumes"} : PowersOff(vmName)
          \/ \E vmName \in {"web", "volumes"} : QemuExits(vmName)]_vars

\* C26: when a stop command ends the QEMU process of a VM, sudo systemctl
\* poweroff has been executed in the guest before; a QEMU process whose guest
\* is up is ended by destroy alone.
C26_StopPowersGuestOff ==
  [][\A v \in {"web", "volumes"} :
       (/\ getVMUnitName(v) \in DOMAIN vmUnits
        /\ getVMUnitName(v) \notin DOMAIN vmUnits'
        /\ vmUnits[getVMUnitName(v)].guest = "up")
       => call'.op = "destroy" /\ ran' = ran + 1]_vars

---------------------------------------------------------------------------
(* The bring-up of one VM with every call of it that may fail (SpecBringUp) *)

\* the calls one of which may fail during the bring-up of a VM
BringUpFaults ==
  {"none", "qemu-img create", "qemu-img resize", "LinkAdd bridge", "dnsmasq",
   "LinkAdd tap", "mkfs.ext4", "genisoimage", "systemd-run"}

\* the image may be pulled or not, and the ports of the range free or taken
InitBringUp ==
  /\ dirs = {}
  /\ files = EmptyMap
  /\ links = EmptyMap
  /\ rules = {}
  /\ vmUnits = EmptyMap
  /\ dhcpUnits = EmptyMap
  /\ cache \in {{}, {"cloud.img"}}
  /\ busy \in {{}, startPort..maxPort}
  /\ call = [op |-> "none"]
  /\ ret = [code |-> 0]
  /\ ran = 0

\* qemu-compose up VM, the call f failing
BringsUp(vmName, f) ==
  /\ Issue
  /\ call' = [op |-> "up", args |-> {vmName}, f |-> f]
  /\ Exits(upCmdVM(Entry, vmName, Config.VMs[vmName], f))

\* qemu-compose stop VM or destroy VM
Halts(op, vmName) ==
  /\ Issue
  /\ call' = [op |-> op, args |-> {vmName}, f |-> "none"]
  /\ Exits(IF op = "stop" THEN stopCmdVM(Entry, vmName, Config.VMs[vmName], "none")
           ELSE destroyCmdVM(Entry, vmName, Config.VMs[vmName], "none"))

SpecBringUp ==
  InitBringUp
    /\ [][\/ \E vmName \in VMNames, f \in BringUpFaults : BringsUp(vmName, f)
          \/ \E op \in {"stop", "destroy"}, vmName \in VMNames : Halts(op, vmName)]_vars

\* C27: in an up of a VM, a step has left a trace only when the steps before
\* it are done: the overlay is new only if the image is in the cache; the
\* fabric has changed only if the overlay and its metadata are there; a file of
\* a volume is new only if every TAP device of the VM is on its bridge; the
\* port is newly recorded only if the volumes of the VM are recorded; the seed
\* is written only if the port is recorded; the unit is registered only if all
\* of these are done and, unless genisoimage has failed, the seed ISO is
\* there.  An up that reports an error for the VM has registered no unit.
C27_BringUpInOrder ==
  [][\A v \in VMNames :
       (call'.op = "up" /\ call'.args = {v} /\ ran' = ran + 1) =>
         LET vm == Config.VMs[v]
             imageDone == getImageFilename(vm.Image) \in cache
             overlayDone == /\ imageDone
                            /\ DiskPath(v) \in DOMAIN files'
                            /\ DiskMetadataPath(v) \in DOMAIN files'
             fabricDone == /\ overlayDone
                           /\ \A i \in 1..Len(vm.Networks) :
                                /\ getTAPName(v, i - 1) \in DOMAIN links'
                                /\ getBridgeName(vm.Networks[i]) \in DOMAIN links'
                                /\ links'[getTAPName(v, i - 1)].master
                                     = getBridgeName(vm.Networks[i])
             volumesDone == /\ fabricDone
                            /\ \A k \in DOMAIN vm.Volumes :
                                 IF isBindMount(vm.Volumes[k].Source)
                                   THEN vm.Volumes[k].Source \in HostPaths
                                        /\ HasPrefix(vm.Volumes[k].Target, "/")
                                   ELSE /\ VolumesJson \in DOMAIN files'
                                        /\ vm.Volumes[k].Source
                                             \in DOMAIN files'[VolumesJson]
             portDone == volumesDone /\ PortsPath(v) \in DOMAIN files'
             overlayNew == DiskPath(v) \in DOMAIN files' \ DOMAIN files
             fabricNew == \/ links' # links
                          \/ dhcpUnits' # dhcpUnits
                          \/ rules' # rules
                          \/ NetworksJson \in DOMAIN files' \ DOMAIN files
             volumesNew == \E n \in DOMAIN Config.Volumes :
                             VolumeDiskPath(n) \in DOMAIN files' \ DOMAIN files
             portNew == PortsPath(v) \in DOMAIN files' \ DOMAIN files
             seedNew == \/ <<v, "cloud-init">> \in dirs' \ dirs
                        \/ IsoPath(v) \in DOMAIN files' \ DOMAIN files
             unitNew == getVMUnitName(v) \in DOMAIN vmUnits' \ DOMAIN vmUnits
         IN  /\ overlayNew => imageDone
             /\ fabricNew => overlayDone
             /\ volumesNew => fabricDone
             /\ portNew => volumesDone
             /\ seedNew => portDone
             /\ unitNew => /\ portDone
                           /\ vmUnits'[getVMUnitName(v)].sshPort = files'[PortsPath(v)].SSH
                           /\ call'.f # "genisoimage" => IsoPath(v) \in DOMAIN files'
             /\ ret'.out[v] = "error" => ~unitNew
             /\ (ret'.out[v] = "started") = unitNew]_vars

\* an up of web has failed at its volumes: the fabric of web is there, and no
\* port, no seed and no unit
C27_Witness ==
  /\ call.op = "up" /\ call.args = {"web"} /\ call.f = "mkfs.ext4"
  /\ ret # Pending /\ ret.code = 1
  /\ DiskPath("web") \in DOMAIN files
  /\ getTAPName("web", 1) \in DOMAIN links
  /\ links[getTAPName("web", 1)].master = getBridgeName("back")
  /\ PortsPath("web") \notin DOMAIN files
  /\ IsoPath("web") \notin DOMAIN files
  /\ ~isVMRunning(World, "web")

\* C28: whenever an up registers the unit of a VM, the overlay and the seed
\* ISO of the VM exist, and the seed ISO is the file of the last -drive of the
\* argv of the unit.
C28_ActiveIsMaterialized ==
  [][\A v \in VMNames :
       (/\ call'.op = "up" /\ ran' = ran + 1
        /\ getVMUnitName(v) \in DOMAIN vmUnits' \ DOMAIN vmUnits)
       => LET argv == vmUnits'[getVMUnitName(v)].argv
              drives == {a \in DOMAIN argv : argv[a].opt = "-drive"}
          IN  /\ DiskPath(v) \in DOMAIN files'
              /\ IsoPath(v) \in DOMAIN files'
              /\ drives # {}
              /\ argv[CHOOSE a \in drives : \A b \in drives : b <= a].file = IsoPath(v)]_vars

---------------------------------------------------------------------------
(* The host port of the SSH forward of every VM, the compose file pinning  *)
(* ssh.port for a VM or not (SpecForward)                                   *)

\* the values of ssh.port in the compose file of a run: 0 when it is not set
PinnedPorts == {0, startPort, startPort + 1}

InitForward ==
  /\ dirs = {}
  /\ files = EmptyMap
  /\ links = EmptyMap
  /\ rules = {}
  /\ vmUnits = EmptyMap
  /\ dhcpUnits = EmptyMap
  /\ cache = {"cloud.img"}
  /\ busy \in {{}, {startPort}}
  /\ call = [op |-> "none"]
  /\ ret = [code |-> 0]
  /\ ran = 0

\* qemu-compose up VM, the compose file declaring ssh.port sshPort for the VM
UpPinned(vmName, sshPort) ==
  /\ Issue
  /\ call' = [op |-> "up", args |-> {vmName}, f |-> "none", port |-> sshPort]
  /\ Exits(upCmdVM(Entry, vmName, [Config.VMs[vmName] EXCEPT !.SSHPort = sshPort], "none"))

SpecForward ==
  InitForward
    /\ [][\/ \E vmName \in VMNames, sshPort \in PinnedPorts : UpPinned(vmName, sshPort)
          \/ \E op \in {"stop", "destroy"}, vmName \in VMNames : Halts(op, vmName)]_vars

\* the host ports that an argv forwards to port 22 of the guest
ForwardedPorts(argv) ==
  {argv[a].hostfwd : a \in {b \in DOMAIN argv : /\ argv[b].opt = "-netdev"
                                                /\ argv[b].type = "user"}}

\* C29: no two VMs that run at the same time forward the same host port,
\* whether the ports were pinned or allocated and in whatever order the VMs
\* were brought up.
C29_ForwardedPortsDistinct ==
  \A v1 \in VMNames, v2 \in VMNames :
    (v1 # v2 /\ isVMRunning(World, v1) /\ isVMRunning(World, v2)) =>
      ForwardedPorts(vmUnits[getVMUnitName(v1)].argv)
        \cap ForwardedPorts(vmUnits[getVMUnitName(v2)].argv) = {}

\* web runs on the port pinned for it, and an up of volumes without ssh.port
\* has then allocated another port
C29_Witness ==
  /\ isVMRunning(World, "web") /\ isVMRunning(World, "volumes")
  /\ call.op = "up" /\ call.args = {"volumes"} /\ call.port = 0 /\ ret.code = 0
  /\ PortsPath("web") \notin DOMAIN files
  /\ ForwardedPorts(vmUnits[getVMUnitName("web")].argv) = {startPort}
  /\ ForwardedPorts(vmUnits[getVMUnitName("volumes")].argv) = {startPort + 1}

\* C30: after an up that has started a VM, the port that getSSHPort returns
\* for the VM is the host port that the argv of its unit forwards, also when
\* ssh.port is pinned and when a ports.json of an earlier run exists.
C30_SshPortIsForwardedPort ==
  \A v \in VMNames :
    (/\ call.op = "up" /\ call.args = {v}
     /\ ret # Pending /\ ret.code = 0
     /\ v \in DOMAIN ret.out /\ ret.out[v] = "started")
    => /\ isVMRunning(World, v)
       /\ ForwardedPorts(vmUnits[getVMUnitName(v)].argv) = {getSSHPort(World, v)}

---------------------------------------------------------------------------
(* The bridges of the networks of a project, for the names a compose file   *)
(* may give to its networks (SpecBridge)                                    *)

\* the length of the longest network name of the model
MaxName == 3

\* the names of the networks, as their characters
NetworkNameChars == UNION {[1..n -> {"a", " ", "-"}] : n \in 1..MaxName}

\* the names of the working directory, as their characters
ProjectNameChars == {<<"p","r","o","j">>, <<"m","y","p","r","o","j","e","c","t">>}

InitBridge ==
  /\ dirs = {}
  /\ files = EmptyMap
  /\ links = EmptyMap
  /\ rules = {}
  /\ vmUnits = EmptyMap
  /\ dhcpUnits = EmptyMap
  /\ cache = {}
  /\ busy = {}
  /\ \E projectName \in ProjectNameChars :
       call = [op |-> "none", project |-> projectName, network |-> <<>>, created |-> {}]
  /\ ret = [code |-> 0]
  /\ ran = 0

\* createBridge as far as the link goes: the bridge of the network is looked
\* up by its name and added when there is none
CreatesBridge(networkName) ==
  /\ Cardinality(call.created \cup {networkName}) <= 2
  /\ call' = [call EXCEPT !.op = "createBridge", !.network = networkName,
                          !.created = @ \cup {networkName}]
  /\ links' = IF BridgeNameOf(call.project, networkName) \in DOMAIN links THEN links
              ELSE Put(links, BridgeNameOf(call.project, networkName),
                       [kind |-> "bridge", up |-> TRUE, master |-> <<>>, addrs |-> {}])
  /\ UNCHANGED <<dirs, files, rules, vmUnits, dhcpUnits, cache, busy, ret, ran>>

\* deleteBridge as far as the link goes: the link of that name is deleted
DeletesBridge(networkName) ==
  /\ networkName \in call.created
  /\ call' = [call EXCEPT !.op = "deleteBridge", !.network = networkName,
                          !.created = @ \ {networkName}]
  /\ links' = IF BridgeNameOf(call.project, networkName) \in DOMAIN links
                THEN LinkDel(links, BridgeNameOf(call.project, networkName))
                ELSE links
  /\ UNCHANGED <<dirs, files, rules, vmUnits, dhcpUnits, cache, busy, ret, ran>>

SpecBridge ==
  InitBridge
    /\ [][\/ \E networkName \in NetworkNameChars : CreatesBridge(networkName)
          \/ \E networkName \in NetworkNameChars : DeletesBridge(networkName)]_vars

\* C31: two networks of a project have two bridge names, so every network
\* whose bridge was created has its bridge until that network is deleted:
\* creating or deleting the bridge of one network leaves the bridge of every
\* other network.
C31_BridgeNamesDistinct ==
  [][\A n \in call'.created :
       /\ BridgeNameOf(call.project, n) \in DOMAIN links'
       /\ \A m \in call'.created \ {n} :
            BridgeNameOf(call.project, m) # BridgeNameOf(call.project, n)]_vars

\* C32: destroy and network down delete neither a bridge nor a TAP device of
\* a VM whose unit is still active when the command has ended, in particular
\* of a VM that could not be stopped.
C32_ActiveVMKeepsItsFabric ==
  [][\A v \in VMNames :
       (/\ call'.op \in {"destroy", "network down"}
        /\ ran' = ran + 1
        /\ getVMUnitName(v) \in DOMAIN vmUnits
        /\ getVMUnitName(v) \in DOMAIN vmUnits')
       => \A i \in 1..Len(Config.VMs[v].Networks) :
            /\ getBridgeName(Config.VMs[v].Networks[i]) \in DOMAIN links
                 => getBridgeName(Config.VMs[v].Networks[i]) \in DOMAIN links'
            /\ getTAPName(v, i - 1) \in DOMAIN links
                 => getTAPName(v, i - 1) \in DOMAIN links']_vars

\* C33: destroy of one VM leaves the files of the SSH key pair, the disks of
\* the named volumes, volumes.json, networks.json and the files of the
\* directory of every other VM as they were.
C33_DestroyRemovesOwnDirOnly ==
  [][\A v \in VMNames :
       (call'.op = "destroy" /\ call'.args = {v} /\ ran' = ran + 1)
       => \A q \in DOMAIN files :
            (\/ IsPrefix(SshDir, q)
             \/ \E n \in DOMAIN Config.Volumes : q = VolumeDiskPath(n)
             \/ q = VolumesJson
             \/ q = NetworksJson
             \/ \E u \in VMNames \ {v} : IsPrefix(<<u>>, q))
            => q \in DOMAIN files' /\ files'[q] = files[q]]_vars

---------------------------------------------------------------------------
(* ensureVolumeExists on its own, with the calls of it that may fail        *)
(* (SpecVolume)                                                             *)

\* the calls of createNamedVolume one of which may fail
VolumeFaults == {"none", "qemu-img create volume", "mkfs.ext4"}

InitVolume ==
  /\ dirs = {}
  /\ files = EmptyMap
  /\ links = EmptyMap
  /\ rules = {}
  /\ vmUnits = EmptyMap
  /\ dhcpUnits = EmptyMap
  /\ cache = {}
  /\ busy = {}
  /\ call = [op |-> "none"]
  /\ ret = [code |-> 0]
  /\ ran = 0

\* ensureVolumeExists(volumeName, config), the call f failing; what the files
\* were is remembered in call.files
EnsuresVolume(volumeName, f) ==
  /\ Issue
  /\ call' = [op |-> "ensureVolumeExists", volumeName |-> volumeName, f |-> f,
              files |-> files]
  /\ Becomes(ensureVolumeExists(Entry, volumeName, f))
  /\ ret' = [code |-> IF Failed(ensureVolumeExists(Entry, volumeName, f)) THEN 1 ELSE 0]

\* removeNamedVolume: the directory of a recorded volume and its record go
removeNamedVolume(w, volumeName) ==
  LET w0 == getMetadataDir(w)
      metadata == loadVolumeMetadata(w0)
  IN  IF volumeName \notin DOMAIN metadata THEN Raise(w0, "volume not found")
      ELSE saveVolumeMetadata(
             RemoveAll(w0, SubSeq(metadata[volumeName].DiskPath, 1, 2)),
             Del(metadata, volumeName))

RemovesVolume(volumeName) ==
  /\ Issue
  /\ call' = [op |-> "removeNamedVolume", volumeName |-> volumeName, f |-> "none",
              files |-> files]
  /\ Becomes(removeNamedVolume(Entry, volumeName))
  /\ ret' = [code |-> IF Failed(removeNamedVolume(Entry, volumeName)) THEN 1 ELSE 0]

\* the guest of a VM that has the volume writes to it
WritesVolume(volumeName) ==
  /\ VolumeDiskPath(volumeName) \in DOMAIN files
  /\ VolumesJson \in DOMAIN files
  /\ volumeName \in DOMAIN files[VolumesJson]
  /\ ~files[VolumeDiskPath(volumeName)].written
  /\ files' = [files EXCEPT ![VolumeDiskPath(volumeName)].written = TRUE]
  /\ UNCHANGED <<dirs, links, rules, vmUnits, dhcpUnits, cache, busy, call, ret, ran>>

SpecVolume ==
  InitVolume
    /\ [][\/ \E volumeName \in {"data", "ghost"}, f \in VolumeFaults :
               EnsuresVolume(volumeName, f)
          \/ \E volumeName \in {"data", "ghost"} : RemovesVolume(volumeName)
          \/ \E volumeName \in DOMAIN Config.Volumes : WritesVolume(volumeName)]_vars

\* C34: a call of ensureVolumeExists that finds the volume in volumes.json
\* changes no file; the record of a volume is written only by a call that has
\* created and formatted its disk, at the declared size; a call that fails
\* leaves no record; and a second call right after a call changes nothing.
C34_VolumeRecordedWhenComplete ==
  [][\A n \in {"data", "ghost"} :
       (call'.op = "ensureVolumeExists" /\ call'.volumeName = n /\ ran' = ran + 1)
       => LET was == loadVolumeMetadata(World)
              is == loadVolumeMetadata([files |-> files', dirs |-> dirs'])
          IN  /\ n \in DOMAIN was => files' = files /\ ret'.code = 0
              /\ (n \in DOMAIN is /\ n \notin DOMAIN was) =>
                   /\ call'.f = "none" /\ ret'.code = 0
                   /\ VolumeDiskPath(n) \in DOMAIN files'
                   /\ files'[VolumeDiskPath(n)]
                        = [size |-> Config.Volumes[n].Size, fs |-> "ext4",
                           written |-> FALSE]
              /\ ret'.code # 0 => is = was
              /\ ret'.code = 0 => n \in DOMAIN is
              /\ \A m \in DOMAIN was : m \in DOMAIN is /\ is[m] = was[m]
              /\ ensureVolumeExists([dirs |-> dirs', files |-> files'] @@ Entry,
                                    n, "none").files = files' \/ ret'.code # 0]_vars

\* the creation of data has failed at mkfs.ext4, its disk is there unformatted
\* and unrecorded; the next call has created it in full
C34_Witness ==
  /\ call.op = "ensureVolumeExists" /\ call.volumeName = "data" /\ call.f = "none"
  /\ ret.code = 0
  /\ VolumeDiskPath("data") \in DOMAIN call.files
  /\ call.files[VolumeDiskPath("data")].fs = "none"
  /\ VolumesJson \notin DOMAIN call.files
  /\ "data" \in DOMAIN files[VolumesJson]
  /\ files[VolumeDiskPath("data")].fs = "ext4"

\* C35: whenever disk.metadata.json of a VM records a size, the overlay disk
\* of the VM has that size, a qemu-img resize having brought it there; also
\* when the resize of the first creation failed and up has run again
C35_MetadataSizeIsOverlaySize ==
  \A v \in VMNames :
    DiskMetadataPath(v) \in DOMAIN files
    => /\ DiskPath(v) \in DOMAIN files
       /\ files[DiskPath(v)].size = files[DiskMetadataPath(v)].Size

---------------------------------------------------------------------------
(* ps: the goroutines of the table (SpecPs).  call holds the command's     *)
(* goroutines: main, one worker per VM and the goroutine that closes the   *)
(* results channel; wg is the WaitGroup's counter, results the buffered    *)
(* channel, sent and received count the sends and receives per VM.         *)

\* make(chan VMStatusResult, len(config.VMs))
ResultsCapacity == Cardinality(VMNames)

\* a wg.Wait() that would return at once whatever the counter
WaitUncounted(wg) == TRUE

\* wg.Wait() returns when the counter is zero
Wait(wg) == wg = 0

InitPs ==
  /\ \E created \in SUBSET {"web", "bad"} :
       /\ dirs = {<<>>} \cup {<<v>> : v \in created}
       /\ files = [p \in {DiskPath(v) : v \in created} |->
                     [backing |-> <<"images", "cloud.img">>, size |-> "10G"]]
                  @@ [p \in {DiskMetadataPath(v) : v \in created \cap {"web"}} |->
                        [Size |-> "10G"]]
  /\ links = EmptyMap
  /\ rules = {}
  /\ vmUnits = EmptyMap
  /\ dhcpUnits = EmptyMap
  /\ cache = {"cloud.img"}
  /\ busy = {}
  /\ call = [op |-> "ps", main |-> "spawn", closer |-> "none", wg |-> 0,
             worker |-> [v \in VMNames |-> "none"],
             result |-> [v \in VMNames |-> Nil],
             results |-> <<>>, closed |-> FALSE, statusMap |-> EmptyMap,
             sent |-> [v \in VMNames |-> 0], received |-> [v \in VMNames |-> 0]]
  /\ ret = Pending
  /\ ran = 0

\* wg.Add(1); go func(name, vmConfig)
Spawns(vmName) ==
  /\ call.main = "spawn"
  /\ call.worker[vmName] = "none"
  /\ call' = [call EXCEPT !.wg = @ + 1, !.worker[vmName] = "status"]
  /\ UNCHANGED <<dirs, files, links, rules, vmUnits, dhcpUnits, cache, busy, ret, ran>>

\* go func() { wg.Wait(); close(results) }(), after the last worker is spawned
SpawnsCloser ==
  /\ call.main = "spawn"
  /\ \A v \in VMNames : call.worker[v] # "none"
  /\ call' = [call EXCEPT !.main = "collect", !.closer = "wait"]
  /\ UNCHANGED <<dirs, files, links, rules, vmUnits, dhcpUnits, cache, busy, ret, ran>>

\* the worker of a VM makes its result: status, disk size and address
Checks(vmName, queryFailed, activeState, probe) ==
  /\ call.worker[vmName] = "status"
  /\ LET r == getVMStatus(World, vmName, queryFailed, activeState, probe)
         ip == getVMIPAddress(World, vmName, Config.VMs[vmName])
     IN  /\ Becomes(r.w)
         /\ call' = [call EXCEPT
              !.worker[vmName] = "send",
              !.result[vmName] =
                Ptr([VMName |-> vmName, Status |-> r.status,
                     DiskSize |-> IF r.status = "not-created" THEN "-"
                                  ELSE IF DiskMetadataPath(vmName) \notin DOMAIN files
                                    THEN "unknown"
                                  ELSE files[DiskMetadataPath(vmName)].Size,
                     IPAddr |-> IF /\ Len(Config.VMs[vmName].Networks) > 0
                                   /\ r.status \in {"ready", "starting", "active"}
                                   /\ ip # <<>>
                                  THEN ip ELSE <<"-">>])]
  /\ UNCHANGED <<ret, ran>>

\* results <- result: the worker waits while the buffer is full; a send on a
\* closed channel panics
Sends(vmName) ==
  /\ call.worker[vmName] = "send"
  /\ call.closed \/ Len(call.results) < ResultsCapacity
  /\ call' = IF call.closed
               THEN [call EXCEPT !.worker[vmName] = "panic", !.main = "done"]
               ELSE [call EXCEPT !.worker[vmName] = "sent",
                                 !.results = Append(@, call.result[vmName][1]),
                                 !.sent[vmName] = @ + 1]
  /\ ret' = IF call.closed THEN [code |-> 2] ELSE ret
  /\ UNCHANGED <<dirs, files, links, rules, vmUnits, dhcpUnits, cache, busy, ran>>

\* defer wg.Done()
Done(vmName) ==
  /\ call.worker[vmName] = "sent"
  /\ call' = [call EXCEPT !.worker[vmName] = "done", !.wg = @ - 1]
  /\ UNCHANGED <<dirs, files, links, rules, vmUnits, dhcpUnits, cache, busy, ret, ran>>

\* wg.Wait() returns; close(results)
Closes ==
  /\ call.closer = "wait"
  /\ Wait(call.wg)
  /\ call' = [call EXCEPT !.closer = "done", !.closed = TRUE]
  /\ UNCHANGED <<dirs, files, links, rules, vmUnits, dhcpUnits, cache, busy, ret, ran>>

\* for result := range results: one result is received
Receives ==
  /\ call.main = "collect"
  /\ call.results # <<>>
  /\ call' = [call EXCEPT
       !.results = Tail(@),
       !.statusMap = Put(@, Head(call.results).VMName, Head(call.results)),
       !.received[Head(call.results).VMName] = @ + 1]
  /\ UNCHANGED <<dirs, files, links, rules, vmUnits, dhcpUnits, cache, busy, ret, ran>>

\* the range ends on the closed, drained channel; the table is printed
Displays ==
  /\ call.main = "collect"
  /\ call.results = <<>>
  /\ call.closed
  /\ call' = [call EXCEPT !.main = "done"]
  /\ ret' = [code |-> 0,
             out |-> [v \in VMNames |->
                        IF v \in DOMAIN call.statusMap
                          THEN call.statusMap[v].Status ELSE ""]]
  /\ UNCHANGED <<dirs, files, links, rules, vmUnits, dhcpUnits, cache, busy, ran>>

Worker(vmName) ==
  \/ \E queryFailed \in BOOLEAN, activeState \in {"active", "inactive"},
        probe \in BOOLEAN :
       Checks(vmName, queryFailed, activeState, probe)
  \/ Sends(vmName)
  \/ Done(vmName)

Main == (\E vmName \in VMNames : Spawns(vmName)) \/ SpawnsCloser \/ Receives \/ Displays

\* the Go scheduler runs every goroutine that can take a step
SpecPs ==
  /\ InitPs
  /\ [][\/ \E vmName \in VMNames : Spawns(vmName)
        \/ SpawnsCloser
        \/ \E vmName \in VMNames, queryFailed \in BOOLEAN,
              activeState \in {"active", "inactive"}, probe \in BOOLEAN :
             Checks(vmName, queryFailed, activeState, probe)
        \/ \E vmName \in VMNames : Sends(vmName)
        \/ \E vmName \in VMNames : Done(vmName)
        \/ Closes
        \/ Receives
        \/ Displays]_vars
  /\ WF_vars(Main)
  /\ WF_vars(Closes)
  /\ \A vmName \in VMNames : WF_vars(Worker(vmName))

\* C36: ps runs one worker per VM; every worker sends one result and no more,
\* and its send never waits (the buffer has room and the channel is open); the
\* channel is closed only after every worker has sent; when the range over the
\* channel has ended the collector has received one result of every VM; and
\* every worker and the command come to their end.
C36_PsCollectsOneResultPerVM ==
  /\ [](/\ \A v \in VMNames :
             /\ call.sent[v] <= 1
             /\ call.received[v] <= call.sent[v]
             /\ call.worker[v] # "panic"
             /\ call.worker[v] = "send"
                  => ~call.closed /\ Len(call.results) < ResultsCapacity
             /\ call.worker[v] \in {"sent", "done"} <=> call.sent[v] = 1
             /\ call.closed => call.sent[v] = 1
             /\ call.main = "done"
                  => /\ call.received[v] = 1
                     /\ v \in DOMAIN call.statusMap
                     /\ call.statusMap[v] = call.result[v][1]
                     /\ ret.code = 0
        /\ call.wg = Cardinality({v \in VMNames :
                                    call.worker[v] \in {"status", "send", "sent"}}))
  /\ <>(call.main = "done" /\ \A v \in VMNames : call.worker[v] = "done")

\* two results wait in the channel while the third worker has not sent yet
C36_Witness ==
  /\ Len(call.results) = 2
  /\ \E v \in VMNames : call.worker[v] = "send"
  /\ call.main = "collect"

---------------------------------------------------------------------------
(* ps --wait: the loop that polls the VMs (SpecWait).  call.elapsed is the *)
(* time since the command began, in seconds; call.tick whether the ticker's*)
(* channel holds a tick; call.seen the statuses of the latest check.       *)

\* time.NewTicker(2 * time.Second)
TickerPeriod == 2

\* time.After(5 * time.Minute), in seconds
WaitTimeout == 300

\* a readiness test that would take a starting VM for ready
IsReadyOrStarting(status) == status \in {"ready", "active", "starting"}

\* status != "ready" && status != "active"
IsReady(status) == status \in {"ready", "active"}

\* the VMs are created, each has its port file, and the key pair is there; the
\* compose file declares a URL image or a local file for bad
InitWait ==
  /\ dirs = {<<>>, SshDir} \cup {<<v>> : v \in VMNames}
  /\ files = [p \in {DiskPath(v) : v \in VMNames} |->
                [backing |-> <<"images", "cloud.img">>, size |-> "10G"]]
             @@ PortFiles("web", startPort) @@ PortFiles("volumes", startPort + 1)
             @@ PortFiles("bad", startPort + 2)
             @@ (<<"ssh", "id_ed25519">> :> "private key")
  /\ links = EmptyMap
  /\ rules = {}
  /\ vmUnits = EmptyMap
  /\ dhcpUnits = EmptyMap
  /\ cache = {"cloud.img"}
  /\ busy = {}
  /\ \E image \in {"https://example/cloud.img", "disk.qcow2"} :
       call = [op |-> "ps --wait", pc |-> "select", elapsed |-> 0, tick |-> FALSE,
               images |-> [v \in VMNames |->
                             IF v = "bad" THEN image ELSE Config.VMs[v].Image],
               seen |-> EmptyMap]
  /\ ret = Pending
  /\ ran = 0

\* the statuses getVMStatus gives for the VMs with a URL image; queryFailed:
\* the VMs whose systemctl show fails, probe: what the ssh test of each VM
\* answers (the instance directories exist, so the calls change no file)
Statuses(images, queryFailed, probe) ==
  [v \in {u \in VMNames : isValidImageURL(images[u])} |->
     getVMStatus(World, v, v \in queryFailed, "active", probe[v]).status]

\* a second passes; the ticker sends a tick every TickerPeriod unless one waits
\* in its channel
Elapses ==
  /\ call.pc \in {"select", "recheck"}
  /\ call' = [call EXCEPT
       !.elapsed = IF @ < WaitTimeout THEN @ + 1 ELSE @,
       !.tick = @ \/ call.elapsed = WaitTimeout
                  \/ (call.elapsed + 1) % TickerPeriod = 0]
  /\ UNCHANGED <<dirs, files, links, rules, vmUnits, dhcpUnits, cache, busy, ret, ran>>

\* case <-timeout: os.Exit(1)
TimesOut ==
  /\ call.pc = "select"
  /\ call.elapsed >= WaitTimeout
  /\ call' = [call EXCEPT !.pc = "exited"]
  /\ ret' = [code |-> 1]
  /\ UNCHANGED <<dirs, files, links, rules, vmUnits, dhcpUnits, cache, busy, ran>>

\* case <-ticker.C: the statuses are read and printed
Polls(queryFailed, probe) ==
  /\ call.pc = "select"
  /\ call.tick
  /\ call' = [call EXCEPT !.pc = "recheck", !.tick = FALSE,
                          !.seen = Statuses(call.images, queryFailed, probe)]
  /\ UNCHANGED <<dirs, files, links, rules, vmUnits, dhcpUnits, cache, busy, ret, ran>>

\* after the select the statuses are read again; the loop ends when every VM
\* with a URL image is ready, and the table follows
Rechecks(queryFailed, probe) ==
  /\ call.pc = "recheck"
  /\ LET seen == Statuses(call.images, queryFailed, probe)
     IN  /\ call' = [call EXCEPT
                !.seen = seen,
                !.pc = IF \A v \in DOMAIN seen : IsReady(seen[v])
                         THEN "passed" ELSE "select"]
         /\ ret' = IF \A v \in DOMAIN seen : IsReady(seen[v]) THEN [code |-> 0] ELSE ret
  /\ UNCHANGED <<dirs, files, links, rules, vmUnits, dhcpUnits, cache, busy, ran>>

\* time passes, the command's goroutine runs, and a select whose timeout
\* channel is ready again and again takes that case in the end (Go chooses
\* among the ready cases at random)
SpecWait ==
  /\ InitWait
  /\ [][\/ Elapses
        \/ TimesOut
        \/ \E queryFailed \in SUBSET {"web"}, probe \in [VMNames -> BOOLEAN] :
             Polls(queryFailed, probe) \/ Rechecks(queryFailed, probe)]_vars
  /\ WF_vars(Elapses)
  /\ WF_vars(\E queryFailed \in SUBSET {"web"}, probe \in [VMNames -> BOOLEAN] :
               Polls(queryFailed, probe) \/ Rechecks(queryFailed, probe))
  /\ SF_vars(TimesOut)

\* C37: ps --wait comes to an end; it goes on to the table only by a check
\* in which every VM with a URL image is ready or active, and it exits with
\* status 1 only when the timeout of WaitTimeout seconds has fired; a round of
\* polling begins only on a tick, and ticks come every TickerPeriod seconds.
C37_WaitTerminates ==
  /\ [][/\ (call'.pc = "passed" /\ call.pc # "passed")
             => /\ \A v \in VMNames :
                     isValidImageURL(call.images[v])
                       => v \in DOMAIN call'.seen /\ call'.seen[v] \in {"ready", "active"}
                /\ ret'.code = 0
        /\ (call'.pc = "exited" /\ call.pc # "exited")
             => call.elapsed = WaitTimeout /\ ret'.code = 1
        /\ (call.pc = "select" /\ call'.pc = "recheck") => call.tick /\ ~call'.tick
        /\ (~call.tick /\ call'.tick)
             => call'.elapsed % TickerPeriod = 0 /\ call.pc = call'.pc]_vars
  /\ <>(call.pc \in {"passed", "exited"})

\* the wait has passed after more than one round of polling
C37_Witness ==
  /\ call.pc = "passed"
  /\ call.elapsed > 2 * TickerPeriod
  /\ call.elapsed < WaitTimeout

---------------------------------------------------------------------------
(* The volume type of a source as inspect reports it and as up classifies  *)
(* it (SpecInspect)                                                        *)

\* the sources are strings of at most MaxSource characters
MaxSource == 3

Sources == UNION {[1..n -> {"/", ".", "\\", "a"}] : n \in 0..MaxSource}

\* strings.HasPrefix(s, prefix)
HasPrefixOf(cs, prefix) ==
  Len(cs) >= Len(prefix) /\ SubSeq(cs, 1, Len(prefix)) = prefix

\* the type inspectCmd reports for a volume of the VM
InspectVolumeType(cs) ==
  IF \/ HasPrefixOf(cs, <<"/">>)
     \/ HasPrefixOf(cs, <<".", "/">>)
     \/ HasPrefixOf(cs, <<".", ".", "/">>)
    THEN "bind" ELSE "volume"

InitInspect ==
  /\ dirs = {}
  /\ files = EmptyMap
  /\ links = EmptyMap
  /\ rules = {}
  /\ vmUnits = EmptyMap
  /\ dhcpUnits = EmptyMap
  /\ cache = {}
  /\ busy = {}
  /\ \E source \in Sources : call = [op |-> "none", source |-> source]
  /\ ret = [inspect |-> "", up |-> ""]
  /\ ran = 0

\* qemu-compose inspect: the type of the volume
Inspects ==
  /\ ret.inspect = ""
  /\ ret' = [ret EXCEPT !.inspect = InspectVolumeType(call.source)]
  /\ call' = [call EXCEPT !.op = "inspect"]
  /\ UNCHANGED <<dirs, files, links, rules, vmUnits, dhcpUnits, cache, busy, ran>>

\* qemu-compose up: parseVMVolumes takes the volume for a bind mount or for a
\* named volume
Parses ==
  /\ ret.up = ""
  /\ ret' = [ret EXCEPT !.up = IF isBindMountOf(call.source) THEN "bind" ELSE "volume"]
  /\ call' = [call EXCEPT !.op = "up"]
  /\ UNCHANGED <<dirs, files, links, rules, vmUnits, dhcpUnits, cache, busy, ran>>

SpecInspect == InitInspect /\ [][Inspects \/ Parses]_vars

\* C38: inspect reports the type bind for a volume exactly when up takes its
\* source for a bind mount
C38_InspectTypeIsUpType ==
  (ret.inspect # "" /\ ret.up # "") => (ret.inspect = "bind" <=> ret.up = "bind")

---------------------------------------------------------------------------
(* The cached base image of image URLs drawn from a set (SpecImage).  A URL *)
(* is its host and the segments of its path.                               *)

\* the paths of the URLs have at most MaxSegments segments
MaxSegments == 2

ImageURLs ==
  [host : {"example", "mirror"},
   path : UNION {[1..n -> {"cloud.img", "other.img", "."}] : n \in 1..MaxSegments}]

\* getImageFilename: filepath.Base(parsedURL.Path), an error for . (Nil)
ImageFilenameOf(imageURL) ==
  IF imageURL.path[Len(imageURL.path)] = "." THEN Nil
  ELSE Ptr(imageURL.path[Len(imageURL.path)])

\* getBaseImagePath: the file of the cache directory named as the URL's file
\* name, an error when it is not there
BaseImagePathOf(cached, imageURL) ==
  IF ImageFilenameOf(imageURL) = Nil THEN [state |-> "error", path |-> <<>>]
  ELSE IF ImageFilenameOf(imageURL)[1] \notin cached
    THEN [state |-> "error", path |-> <<>>]
  ELSE [state |-> "resolved", path |-> <<"images", ImageFilenameOf(imageURL)[1]>>]

\* the images of web and bad, as the compose file declares them, are pulled
InitImage ==
  /\ dirs = {}
  /\ files = EmptyMap
  /\ links = EmptyMap
  /\ rules = {}
  /\ vmUnits = EmptyMap
  /\ dhcpUnits = EmptyMap
  /\ \E u1 \in ImageURLs, u2 \in ImageURLs :
       /\ call = [op |-> "none", images |-> [web |-> u1, bad |-> u2]]
       /\ cache = {ImageFilenameOf(u)[1] : u \in {u \in {u1, u2} : ImageFilenameOf(u) # Nil}}
  /\ busy = {}
  /\ ret = [v \in {"web", "bad"} |-> [state |-> "pending", path |-> <<>>]]
  /\ ran = 0

\* up resolves the base image of the VM
ResolvesBase(vmName) ==
  /\ ret[vmName].state = "pending"
  /\ ret' = [ret EXCEPT ![vmName] = BaseImagePathOf(cache, call.images[vmName])]
  /\ call' = [call EXCEPT !.op = "getBaseImagePath"]
  /\ UNCHANGED <<dirs, files, links, rules, vmUnits, dhcpUnits, cache, busy, ran>>

SpecImage == InitImage /\ [][\E vmName \in {"web", "bad"} : ResolvesBase(vmName)]_vars

\* C39: two VMs whose image URLs differ never resolve to the same cached base
\* image file, also when the paths of the URLs end in the same name
C39_DifferentURLsDifferentBase ==
  (/\ call.images.web # call.images.bad
   /\ ret.web.state = "resolved"
   /\ ret.bad.state = "resolved")
  => ret.web.path # ret.bad.path

============================================================================
